---------------------------- MODULE Spec2Model ----------------------------
(***************************************************************************)
(* A model of libexmdbpp: the exmdb client (ExmdbClient, its Connection),  *)
(* and the multi-request queries of ExmdbQueries built on top of it.       *)
(*                                                                         *)
(* Every system call of the connection code (socket, fcntl, poll, send,    *)
(* recv, close) is one point of nondeterminism: the kernel and the server  *)
(* choose its result.  A caller is a thread that invokes operations on     *)
(* the one client object.                                                  *)
(***************************************************************************)
EXTENDS Integers, Sequences, FiniteSets, TLC

\* ------------------------------------------------------------ bounds
MaxFds == 3          \* sockets the process may hold open: socket() fails beyond
MaxAddrs == 2        \* addresses getaddrinfo may return
MaxLen == 2          \* largest response body length announced in a header
MaxRows == 2         \* largest rowCount a Load...Table response reports
MaxLimit == 2        \* largest offset / limit a caller passes
MaxTableId == 2      \* table handles the server issues: 1..MaxTableId
MaxMembers == 1      \* rows of a permission table
MaxRights == 3       \* largest rights mask: two permission bits
MaxListed == 1       \* rows of the member list setFolderMembers reads
MaxUsernames == 2    \* usernames passed to setFolderMembers
MaxMid == 2          \* message ids the server reports: 1..MaxMid
MaxSubfolders == 1    \* subfolders of the sync folder
MaxCount == 2        \* elements of an array property value
MaxBuffers == 4      \* heap buffers allocated in one run of the ownership model
MaxElems == 1        \* elements of a string or binary array in the ownership model

\* ------------------------------------------------- program constants
SUCCESS == 0
ACCESS_DENY == 1
DISPATCH_ERROR == 8
AUTO_RECONNECT == 1
HeaderSize == 5
ADD_ROW == 1
MODIFY_ROW == 2
REMOVE_ROW == 4
ID_ANONYMOUS == -1   \* 0xFFFFFFFFFFFFFFFF read as a signed integer
NoSock == 0          \* models sock == -1

\* The callers of the one client object (threads of the embedding program).
Callers == {"c1", "c2"}
\* The caller of a single-threaded program.
MainCaller == "c1"

\* The response codes the server is taken to answer with.
StatusCodes == {SUCCESS, ACCESS_DENY, DISPATCH_ERROR}
\* The values of ExmdbClient::flags (bit 0 is AUTO_RECONNECT).
FlagValues == {0, 1, 2, 3}
\* The connection parameters a caller passes to the constructor or to connect.
ParamSet == {[prefix |-> "/u/a", isPrivate |-> TRUE],
             [prefix |-> "/d/b", isPrivate |-> FALSE]}

VARIABLES
    sock,         \* ExmdbClient::connection.sock (NoSock or an fd)
    params,       \* ExmdbClient::params (prefix, isPrivate)
    flags,        \* ExmdbClient::flags
    buffer,       \* ExmdbClient::buffer: the caller whose send last wrote or resized it
    fds,          \* the kernel's socket table, by fd: state and what was sent
    call,         \* per caller: the ExmdbQueries / ExmdbClient operation running
    snd,          \* per caller: the ExmdbClient::send / Connection::send running
    newconn,      \* per caller: the local Connection of reconnect()
    trace,        \* per caller: the requests its operation has transmitted
    outstanding,  \* requests transmitted whose send has not yet ended
    overlapped    \* some operation was started while another was running

vars == <<sock, params, flags, buffer, fds, call, snd, newconn, trace,
          outstanding, overlapped>>

\* ------------------------------------------------------------ values
NoExc == [kind |-> "none", code |-> 0]
ConnectionError == [kind |-> "ConnectionError", code |-> 0]
ExmdbProtocolError(code) == [kind |-> "ExmdbProtocolError", code |-> code]

\* -------------------------------------------------------- Restriction

\* Restriction::Type, the wire code of a variant: create<I> emplaces the
\* alternative of index I of the variant res, and serialize writes res.index().
Type(name) ==
    CASE name = "AND" -> 0
      [] name = "OR" -> 1
      [] name = "NOT" -> 2
      [] name = "CONTENT" -> 3
      [] name = "PROPERTY" -> 4
      [] name = "PROPCOMP" -> 5
      [] name = "BITMASK" -> 6
      [] name = "SIZE" -> 7
      [] name = "EXIST" -> 8
      [] name = "SUBRES" -> 9
      [] name = "COMMENT" -> 10
      [] name = "COUNT" -> 11
      [] name = "iXNULL" -> 12
      [] OTHER -> 255

\* Restriction::XNULL(): the default constructed restriction (std::monostate)
Restriction_XNULL == [variant |-> Type("iXNULL")]

\* Restriction::create<I>(args...): the alternative I, constructed from args
create(I, alternative) == [variant |-> Type(I)] @@ alternative

\* A request as written by Request::write: the call and its arguments.
Request(c) ==
    [prefix |-> "", isPrivate |-> FALSE, call |-> c, folderId |-> "0",
     tableFlags |-> "0", restriction |-> Restriction_XNULL, tableId |-> 0,
     rowOffset |-> 0, rowCount |-> 0, rows |-> <<>>, options |-> <<>>]
NoRequest == Request("none")

ConnectRequest(prefix, isPrivate) ==
    [Request("ConnectRequest") EXCEPT !.prefix = prefix, !.isPrivate = isPrivate]

\* An fd as socket() returns it, and a slot of the table that holds no socket.
NewFd == [state |-> "open", connected |-> FALSE, first |-> NoRequest,
          hs |-> "none", early |-> FALSE, badclose |-> FALSE]
FreeFd == [NewFd EXCEPT !.state = "free"]

NoArgs == [folderId |-> "0", parent |-> "0", recursive |-> FALSE, offset |-> 0,
           limit |-> 0, username |-> "", id |-> 0, rights |-> 0,
           remove |-> FALSE, usernames |-> <<>>, clear |-> FALSE,
           container |-> ""]
\* TaggedPropval(): tag 0, type 0 and a zeroed value; member names the
\* member of the value union that was written.
NoPropval == [value |-> 0, tag |-> 0, type |-> 0, member |-> "none"]
\* The locals of an operation: the Load...Table response as parsed (tableId,
\* rowCount) and as the server wrote it (issued, reported), the member rows.
NoLocals == [folderId |-> "0", tableId |-> 0, rowCount |-> 0, parent |-> "0",
             issued |-> 0, reported |-> 0,
             entries |-> <<>>, modified |-> 0, permissions |-> <<>>,
             index |-> 0, table |-> <<>>, mids |-> <<>>, data |-> {},
             changeNum |-> <<>>, pv |-> NoPropval, trailing |-> <<>>,
             buff |-> <<>>, popped |-> NoPropval, x |-> <<>>, gc |-> <<>>,
             xid |-> <<>>, before |-> <<>>, heap |-> <<>>, objs |-> <<>>,
             op |-> <<>>]
NoResult == [kind |-> "none", code |-> 0, value |-> 0]

IdleCall == [fn |-> "idle", pc |-> "idle", args |-> NoArgs,
             loc |-> NoLocals, out |-> NoResult]
IdleSend == [offset |-> 0, pc |-> "idle", on |-> "connection", req |-> NoRequest,
             fd |-> NoSock, bytes |-> 0, status |-> SUCCESS, length |-> 0,
             exc |-> NoExc, response |-> "none", reconnects |-> 0,
             mark |-> 0, rcret |-> "none"]

\* -------------------------------------------------------- Restriction values

\* TaggedPropval(tag, val) and TaggedPropval(tag, val, len): with copy = true
\* the value is the len bytes at val when the propval is constructed.
TaggedPropval(ptag, val) == [value |-> val, tag |-> ptag]

\* Restriction::Op
Op(name) ==
    CASE name = "LT" -> 0
      [] name = "LE" -> 1
      [] name = "GT" -> 2
      [] name = "GE" -> 3
      [] name = "EQ" -> 4
      [] name = "NE" -> 5
      [] name = "RE" -> 6
      [] OTHER -> 100

\* RContent(fl, pt, tp) : fuzzyLevel(fl), proptag(pt != 0? pt : tp.tag), propval(std::move(tp))
RContent(fl, pt, tp) ==
    [fuzzyLevel |-> fl, proptag |-> IF pt # 0 THEN pt ELSE tp.tag, propval |-> tp]

\* RProp(op, pt, tp) keeping the proptag it is given.
RProp_asGiven(o, pt, tp) ==
    [op |-> o, proptag |-> pt, propval |-> tp]

\* RProp(op, pt, tp) : op(op), proptag(pt != 0? pt : tp.tag), propval(std::move(tp))
RProp(o, pt, tp) ==
    [op |-> o, proptag |-> IF pt # 0 THEN pt ELSE tp.tag, propval |-> tp]

\* RComment(tvs, res) : propvals(std::move(tvs)),
\*     res(res.res.index() == size_t(Type::iXNULL)? new Restriction(std::move(res)) : nullptr)
\* The pointer res is the sequence of what it points to: empty for nullptr.
RComment(tvs, r) ==
    [propvals |-> tvs,
     res |-> IF r.variant = Type("iXNULL") THEN <<r>> ELSE <<>>]

\* The factory functions; a pointer member holds new Restriction(std::move(res)).
Restriction_AND(ress) == create("AND", [elements |-> ress])
Restriction_OR(ress) == create("OR", [elements |-> ress])
Restriction_NOT(r) == create("NOT", [res |-> <<r>>])
Restriction_CONTENT(fl, pt, tp) == create("CONTENT", RContent(fl, pt, tp))
Restriction_PROPERTY(o, pt, tp) == create("PROPERTY", RProp(o, pt, tp))
Restriction_PROPCOMP(o, pt1, pt2) ==
    create("PROPCOMP", [op |-> o, proptag1 |-> pt1, proptag2 |-> pt2])
Restriction_BITMASK(a, pt, m) ==
    create("BITMASK", [proptag |-> pt, all |-> a, mask |-> m])
Restriction_SIZE(o, pt, n) ==
    create("SIZE", [op |-> o, proptag |-> pt, size |-> n])
Restriction_EXIST(pt) == create("EXIST", [proptag |-> pt])
Restriction_SUBOBJECT(so, r) ==
    create("SUBRES", [res |-> <<r>>, subobject |-> so])
Restriction_COMMENT(tvs, r) == create("COMMENT", RComment(tvs, r))
Restriction_COUNT(n, r) ==
    create("COUNT", [count |-> n, subres |-> <<r>>])

\* -------------------------------------------------------- Connection

\* ::close(fd) in the kernel's table: the slot is free again; closing an fd
\* that holds no socket is an error the slot remembers.
SysClose(f, fd) ==
    [f EXCEPT ![fd] = IF @.state = "open" THEN FreeFd
                      ELSE [@ EXCEPT !.badclose = TRUE]]

\* socket(): the lowest free fd, NoSock when the table is full.
FreeFds(f) == {i \in 1..MaxFds : f[i].state = "free"}
LowestFree(f) == CHOOSE i \in FreeFds(f) : \A j \in FreeFds(f) : i <= j

\* ExmdbClient::Connection::close
Connection_close(s, f) ==
    [sock |-> NoSock, fds |-> IF s # NoSock THEN SysClose(f, s) ELSE f]

\* The results of the system calls made for one address in Connection::connect.
AddrOutcomes == {"socket_fail", "fcntl_fail", "poll_timeout", "poll_error", "poll_ready"}

\* The loop of Connection::connect over the resolved addresses; st carries
\* the member sock, the local res and the fd table.
RECURSIVE ConnectLoop(_, _, _)
ConnectLoop(outs, i, st) ==
    IF i > Len(outs) THEN st
    ELSE LET o == IF FreeFds(st.fds) = {} THEN "socket_fail" ELSE outs[i]
             fd == LowestFree(st.fds)
             opened == [st EXCEPT !.sock = fd, !.fds[fd] = NewFd]
         IN  CASE o = "socket_fail" ->
                    ConnectLoop(outs, i + 1, [st EXCEPT !.sock = NoSock])
               [] o = "fcntl_fail" ->
                    ConnectLoop(outs, i + 1, [opened EXCEPT !.res = -1])
               [] o = "poll_ready" ->
                    [opened EXCEPT !.res = 1, !.fds[fd].connected = TRUE]
               [] OTHER ->
                    ConnectLoop(outs, i + 1,
                        [opened EXCEPT !.res = IF o = "poll_timeout" THEN 0 ELSE -1,
                                       !.sock = NoSock,
                                       !.fds = SysClose(@, fd)])

\* ExmdbClient::Connection::connect on a connection whose member is s:
\* gai is whether getaddrinfo succeeded, outs the outcomes per address.
Connection_connect(s, f, gai, outs) ==
    LET c == Connection_close(s, f)
    IN  IF ~gai THEN [sock |-> c.sock, fds |-> c.fds, thrown |-> TRUE]
        ELSE LET st == ConnectLoop(outs, 1, [sock |-> c.sock, fds |-> c.fds, res |-> 0])
             IN  [sock |-> st.sock, fds |-> st.fds, thrown |-> st.res # 1]

\* The address lists and outcomes a connect attempt can meet.
ConnectOutcomes ==
    UNION {[1..n -> AddrOutcomes] : n \in 1..MaxAddrs}

\* ExmdbClient::Connection::operator=(Connection&&): dst = std::move(src)
Connection_move_assign(dst, src, f) ==
    LET c == Connection_close(dst, f)
    IN  [fds |-> c.fds, dst |-> src, src |-> NoSock]


\* ---------------------------------------------------- Connection::send

\* The socket a caller's Connection::send works on: the member of the client's
\* connection, or of reconnect()'s local newconn.
CurSock(t) == IF snd[t].on = "newconn" THEN newconn[t] ELSE sock

\* What ::send leaves in the kernel's record of the socket.
Transmitted(e, req) ==
    [e EXCEPT !.first = IF e.first = NoRequest THEN req ELSE @,
              !.early = @ \/ (e.first # NoRequest /\ e.hs # "ok")]

\* An exception leaving Connection::send: reconnect() catches everything thrown
\* on newconn, ExmdbClient::send catches ExmdbProtocolError, the rest propagates.
Thrown(s, exc) ==
    IF s.on = "newconn" THEN [s EXCEPT !.pc = "rc_failed"]
    ELSE IF exc.kind = "ExmdbProtocolError" THEN [s EXCEPT !.pc = "caught", !.exc = exc]
    ELSE [s EXCEPT !.pc = "throw", !.exc = exc]

\* An exception that nothing catches ends the operation of the caller: no
\* function of ExmdbQueries or ExmdbClient handles what ExmdbClient::send or
\* Connection::connect throws.
Propagated(c, exc) ==
    [c EXCEPT !.pc = "done",
              !.out = [kind |-> exc.kind, code |-> exc.code, value |-> 0]]

\* The send of caller t goes on in state s2; when s2 is a propagating
\* exception the operation ends with it.
Leave(t, s2) ==
    /\ snd' = [snd EXCEPT ![t] = s2]
    /\ call' = IF s2.pc = "throw"
               THEN [call EXCEPT ![t] = Propagated(@, s2.exc)]
               ELSE call

\* Connection::send returns: reconnect() goes on to adopt newconn,
\* ExmdbClient::send builds the typed response from the buffer.
Completed(s) ==
    IF s.on = "newconn" THEN [s EXCEPT !.pc = "rc_ok"]
    ELSE [s EXCEPT !.pc = "ok", !.response = "built"]

\* The end of a Connection::send whose request was transmitted: the request is
\* no longer outstanding; a Connect answered with SUCCESS readies the socket.
SendEnds(t, s2) ==
    /\ Leave(t, s2)
    /\ outstanding' = outstanding - 1
    /\ fds' = IF s2.pc \in {"ok", "rc_ok"} /\ s2.req.call = "ConnectRequest"
                 /\ s2.fd # NoSock
              THEN [fds EXCEPT ![s2.fd].hs = "ok"]
              ELSE fds

\* ExmdbClient::send up to the call of connection.send: the request is written
\* into the client's buffer.
ExmdbClient_send(t, req) ==
    /\ snd' = [snd EXCEPT ![t] = [IdleSend EXCEPT !.pc = "xmit", !.req = req]]
    /\ buffer' = t

\* What ::send transmits for a caller: the request it wrote, unless the buffer
\* was rewritten or resized by another caller since.
InBuffer(t) ==
    IF buffer = t THEN snd[t].req
    ELSE Request("clobbered")

\* A send that returns once the request is transmitted, without receiving.
Connection_send_xmit_noReceive(t) ==
    /\ snd[t].pc = "xmit"
    /\ \E ok \in BOOLEAN :
          LET fd == CurSock(t)
          IN  /\ ok => (fd # NoSock /\ fds[fd].state = "open" /\ fds[fd].connected)
              /\ IF ok
                 THEN /\ fds' = [fds EXCEPT ![fd] = Transmitted(@, InBuffer(t))]
                      /\ trace' = [trace EXCEPT ![t] = Append(@, InBuffer(t))]
                      /\ outstanding' = outstanding + 1
                      /\ buffer' = t
                      /\ Leave(t, Completed([snd[t] EXCEPT !.fd = fd]))
                 ELSE /\ Leave(t, Thrown(snd[t], ConnectionError))
                      /\ UNCHANGED <<fds, trace, outstanding, buffer>>
    /\ UNCHANGED <<sock, params, flags, newconn, overlapped>>

\* ::send(sock, buff.data(), buff.size(), MSG_NOSIGNAL) and buff.resize(5)
Connection_send_xmit(t) ==
    /\ snd[t].pc = "xmit"
    /\ \E ok \in BOOLEAN :
          LET fd == CurSock(t)
          IN  /\ ok => (fd # NoSock /\ fds[fd].state = "open" /\ fds[fd].connected)
              /\ IF ok
                 THEN /\ fds' = [fds EXCEPT ![fd] = Transmitted(@, InBuffer(t))]
                      /\ trace' = [trace EXCEPT ![t] = Append(@, InBuffer(t))]
                      /\ outstanding' = outstanding + 1
                      /\ buffer' = t
                      /\ Leave(t, [snd[t] EXCEPT !.pc = "header", !.fd = fd])
                 ELSE /\ Leave(t, Thrown(snd[t], ConnectionError))
                      /\ UNCHANGED <<fds, trace, outstanding, buffer>>
    /\ UNCHANGED <<sock, params, flags, newconn, overlapped>>

\* The checks on the header read with the short-read check made first.
HeaderCheck_shortReadFirst(bytes, status) ==
    IF bytes < 0 THEN ConnectionError
    ELSE IF bytes = 0 THEN ConnectionError
    ELSE IF bytes < HeaderSize THEN ConnectionError
    ELSE IF status # SUCCESS THEN ExmdbProtocolError(status)
    ELSE NoExc

\* The checks on the header read: bytes is recv's result, status the first byte.
HeaderCheck(bytes, status) ==
    IF bytes < 0 THEN ConnectionError
    ELSE IF bytes = 0 THEN ConnectionError
    ELSE IF status # SUCCESS THEN ExmdbProtocolError(status)
    ELSE IF bytes < HeaderSize THEN ConnectionError
    ELSE NoExc

\* recv(sock, buff.data(), 5, 0), the checks, and buff.resize(length)
Connection_send_header(t) ==
    /\ snd[t].pc = "header"
    /\ \E bytes \in -1..HeaderSize, status \in StatusCodes, length \in 0..MaxLen :
          LET fd == CurSock(t)
              s1 == [snd[t] EXCEPT !.bytes = bytes, !.status = status, !.length = length]
              exc == HeaderCheck(bytes, status)
          IN  /\ bytes <= 0 => status = SUCCESS
              /\ (bytes < HeaderSize \/ status # SUCCESS) => length = 0
              /\ bytes > 0 => (fd # NoSock /\ fds[fd].state = "open")
              /\ IF exc # NoExc
                 THEN SendEnds(t, Thrown(s1, exc))
                 ELSE /\ IF length = 0
                         THEN SendEnds(t, Completed(s1))
                         ELSE /\ Leave(t, [s1 EXCEPT !.pc = "body"])
                              /\ UNCHANGED <<fds, outstanding>>
    /\ buffer' = t
    /\ UNCHANGED <<sock, params, flags, newconn, trace, overlapped>>

\* A body received with a single recv, whatever it returns.
Connection_send_body_oneRead(t) ==
    /\ snd[t].pc = "body"
    /\ \E bytes \in -1..(snd[t].length - snd[t].offset) :
          LET fd == CurSock(t)
              s1 == [snd[t] EXCEPT !.offset = IF bytes > 0 THEN @ + bytes ELSE @]
          IN  /\ bytes > 0 => (fd # NoSock /\ fds[fd].state = "open")
              /\ IF bytes <= 0
                 THEN SendEnds(t, Thrown(s1, ConnectionError))
                 ELSE SendEnds(t, Completed(s1))
    /\ buffer' = t
    /\ UNCHANGED <<sock, params, flags, newconn, trace, overlapped>>

\* One pass of the loop that receives the body:
\* recv(sock, buff.data()+offset, length-offset, 0)
Connection_send_body(t) ==
    /\ snd[t].pc = "body"
    /\ \E bytes \in -1..(snd[t].length - snd[t].offset) :
          LET fd == CurSock(t)
              s1 == [snd[t] EXCEPT !.offset = IF bytes > 0 THEN @ + bytes ELSE @]
          IN  /\ bytes > 0 => (fd # NoSock /\ fds[fd].state = "open")
              /\ IF bytes <= 0
                 THEN SendEnds(t, Thrown(s1, ConnectionError))
                 ELSE IF s1.offset < s1.length
                 THEN Leave(t, s1) /\ UNCHANGED <<fds, outstanding>>
                 ELSE SendEnds(t, Completed(s1))
    /\ buffer' = t
    /\ UNCHANGED <<sock, params, flags, newconn, trace, overlapped>>

\* --------------------------------------------------------- ExmdbClient

\* a & b on unsigned integers
RECURSIVE BitAnd(_, _)
BitAnd(a, b) ==
    IF a = 0 \/ b = 0 THEN 0
    ELSE (a % 2) * (b % 2) + 2 * BitAnd(a \div 2, b \div 2)

\* The condition of the handler without the test of the flag.
ShouldReconnect_anyFlags(code, fl) ==
    code = DISPATCH_ERROR

\* The condition of the handler in ExmdbClient::send:
\* err.code == 8 && flags & AUTO_RECONNECT
ShouldReconnect(code, fl) ==
    code = DISPATCH_ERROR /\ BitAnd(fl, AUTO_RECONNECT) # 0

\* catch (const ExmdbProtocolError& err) in ExmdbClient::send
ExmdbClient_send_catch(t) ==
    /\ snd[t].pc = "caught"
    /\ Leave(t, IF ShouldReconnect(snd[t].exc.code, flags)
                 THEN [snd[t] EXCEPT !.pc = "reconnect", !.reconnects = @ + 1,
                                     !.mark = Len(trace[t])]
                 ELSE [snd[t] EXCEPT !.pc = "throw"])
    /\ UNCHANGED <<sock, params, flags, buffer, fds, newconn, trace,
                   outstanding, overlapped>>

\* reconnect(): newconn.connect(params.host, params.port), then the Connect
\* request is written into the client's buffer for newconn.send.
ExmdbClient_reconnect_connect(t) ==
    /\ snd[t].pc = "reconnect"
    /\ \E gai \in BOOLEAN, outs \in ConnectOutcomes :
          LET r == Connection_connect(NoSock, fds, gai, outs)
          IN  /\ ~gai => outs = <<"socket_fail">>
              /\ fds' = r.fds
              /\ newconn' = [newconn EXCEPT ![t] = r.sock]
              /\ IF r.thrown
                 THEN /\ snd' = [snd EXCEPT ![t].pc = "rc_failed", ![t].on = "newconn"]
                      /\ UNCHANGED buffer
                 ELSE /\ snd' = [snd EXCEPT ![t].pc = "xmit", ![t].on = "newconn",
                                   ![t].req = ConnectRequest(params.prefix, params.isPrivate),
                                   ![t].fd = NoSock,
                                   ![t].bytes = 0, ![t].status = SUCCESS,
                                   ![t].length = 0, ![t].offset = 0]
                      /\ buffer' = t
    /\ UNCHANGED <<sock, params, flags, call, trace, outstanding, overlapped>>

\* The return of reconnect() to its caller: the handler of ExmdbClient::send
\* rethrows the protocol error, a caller of reconnect() gets the flag.
ReconnectReturns(t, flag) ==
    IF call[t].fn = "reconnect"
    THEN /\ call' = [call EXCEPT ![t].pc = "done",
                       ![t].out = [kind |-> "ok", code |-> 0, value |-> IF flag THEN 1 ELSE 0]]
         /\ snd' = [snd EXCEPT ![t].pc = "idle",
                               ![t].rcret = IF flag THEN "true" ELSE "false"]
    ELSE Leave(t, [snd[t] EXCEPT !.pc = "throw",
                                 !.rcret = IF flag THEN "true" ELSE "false"])

\* reconnect(): connection = std::move(newconn); return true;
ExmdbClient_reconnect_adopt(t) ==
    /\ snd[t].pc = "rc_ok"
    /\ LET m == Connection_move_assign(sock, newconn[t], fds)
       IN  /\ sock' = m.dst
           /\ newconn' = [newconn EXCEPT ![t] = m.src]
           /\ fds' = m.fds
    /\ ReconnectReturns(t, TRUE)
    /\ UNCHANGED <<params, flags, buffer, trace, outstanding, overlapped>>

\* A failing reconnect() that gives up the client's connection as well.
ExmdbClient_reconnect_fail_closing(t) ==
    /\ snd[t].pc = "rc_failed"
    /\ LET c == Connection_close(newconn[t], fds)
           d == Connection_close(sock, c.fds)
       IN  /\ newconn' = [newconn EXCEPT ![t] = c.sock]
           /\ sock' = d.sock
           /\ fds' = d.fds
    /\ ReconnectReturns(t, FALSE)
    /\ UNCHANGED <<params, flags, buffer, trace, outstanding, overlapped>>

\* reconnect(): catch (...) {return false;} and the destructor of newconn
ExmdbClient_reconnect_fail(t) ==
    /\ snd[t].pc = "rc_failed"
    /\ LET c == Connection_close(newconn[t], fds)
       IN  /\ newconn' = [newconn EXCEPT ![t] = c.sock]
           /\ fds' = c.fds
    /\ ReconnectReturns(t, FALSE)
    /\ UNCHANGED <<sock, params, flags, buffer, trace, outstanding, overlapped>>

\* ---------------------------------------------------------- operations

\* A caller invokes an operation on the client.
Begin(t, fn, pc, args) ==
    /\ call[t].pc = "idle"
    /\ call' = [call EXCEPT ![t] = [IdleCall EXCEPT !.fn = fn, !.pc = pc, !.args = args]]
    /\ trace' = [trace EXCEPT ![t] = <<>>]
    /\ overlapped' = (overlapped \/ \E u \in Callers \ {t} : call[u].pc # "idle")

\* An operation returns value v to its caller.
Returns(t, v) ==
    /\ call' = [call EXCEPT ![t].pc = "done",
                            ![t].out = [kind |-> "ok", code |-> 0, value |-> v]]
    /\ snd' = [snd EXCEPT ![t].pc = "idle"]

\* ExmdbClient::connect: the parameters are stored, the connection connects,
\* and the Connect request is sent.
ExmdbClient_connect(t) ==
    \E p \in ParamSet, gai \in BOOLEAN, outs \in ConnectOutcomes :
       LET r == Connection_connect(sock, fds, gai, outs)
       IN  /\ ~gai => outs = <<"socket_fail">>
           /\ call[t].pc = "idle"
           /\ call' = [call EXCEPT ![t] =
                         IF r.thrown
                         THEN Propagated([IdleCall EXCEPT !.fn = "connect"], ConnectionError)
                         ELSE [IdleCall EXCEPT !.fn = "connect", !.pc = "connect_sent"]]
           /\ trace' = [trace EXCEPT ![t] = <<>>]
           /\ overlapped' = (overlapped \/ \E u \in Callers \ {t} : call[u].pc # "idle")
           /\ params' = p
           /\ sock' = r.sock
           /\ fds' = r.fds
           /\ IF r.thrown
              THEN /\ snd' = [snd EXCEPT ![t] = [IdleSend EXCEPT !.pc = "throw",
                                                              !.exc = ConnectionError]]
                   /\ UNCHANGED buffer
              ELSE ExmdbClient_send(t, ConnectRequest(p.prefix, p.isPrivate))
           /\ UNCHANGED <<flags, newconn, outstanding>>

\* ExmdbClient::connect returns once the Connect request is answered.
ExmdbClient_connect_return(t) ==
    /\ call[t].pc = "connect_sent"
    /\ snd[t].pc = "ok"
    /\ Returns(t, 0)
    /\ UNCHANGED <<sock, params, flags, buffer, fds, newconn, trace, outstanding,
                   overlapped>>

\* The client is destroyed between two operations (~Connection closes the
\* socket) and a default-constructed one takes its place.
ExmdbClient_destroy(t) ==
    /\ call[t].pc = "idle"
    /\ \A u \in Callers : call[u].pc = "idle"
    /\ sock # NoSock
    /\ LET c == Connection_close(sock, fds)
       IN  /\ sock' = c.sock
           /\ fds' = c.fds
    /\ flags' = 0
    /\ params' \in {[prefix |-> "", isPrivate |-> b] : b \in BOOLEAN}
    /\ UNCHANGED <<buffer, call, snd, newconn, trace, outstanding, overlapped>>

\* A caller invokes ExmdbClient::reconnect.
ExmdbClient_reconnect(t) ==
    /\ Begin(t, "reconnect", "reconnecting", NoArgs)
    /\ snd' = [snd EXCEPT ![t] = [IdleSend EXCEPT !.pc = "reconnect"]]
    /\ UNCHANGED <<sock, params, flags, buffer, fds, newconn, outstanding>>

\* ExmdbQueries::unloadStore: send<UnloadStoreRequest>(homedir)
unloadStore(t) ==
    /\ Begin(t, "unloadStore", "unloadStore_sent", NoArgs)
    /\ ExmdbClient_send(t, Request("UnloadStoreRequest"))
    /\ UNCHANGED <<sock, params, flags, fds, newconn, outstanding>>

unloadStore_return(t) ==
    /\ call[t].pc = "unloadStore_sent"
    /\ snd[t].pc = "ok"
    /\ Returns(t, 0)
    /\ UNCHANGED <<sock, params, flags, buffer, fds, newconn, trace, outstanding,
                   overlapped>>

\* ------------------------------------------------------------ requests

\* The requests of ExmdbQueries, by the arguments the queries pass.
LoadHierarchyTableRequest(folderId, tableFlags, restriction) ==
    [Request("LoadHierarchyTableRequest") EXCEPT !.folderId = folderId,
        !.tableFlags = tableFlags, !.restriction = restriction]

LoadPermissionTableRequest(folderId) ==
    [Request("LoadPermissionTableRequest") EXCEPT !.folderId = folderId]

QueryTableRequest(tableId, rowOffset, rowCount) ==
    [Request("QueryTableRequest") EXCEPT !.tableId = tableId,
        !.rowOffset = rowOffset, !.rowCount = rowCount]

UnloadTableRequest(tableId) ==
    [Request("UnloadTableRequest") EXCEPT !.tableId = tableId]

UpdateFolderPermissionRequest(folderId, rows) ==
    [Request("UpdateFolderPermissionRequest") EXCEPT !.folderId = folderId,
        !.rows = rows]

\* EmptyFolderRequest(homedir, cpid, username, folderId, hard, normal,
\* associated, subfolders) and DeleteFolderRequest(homedir, cpid, folderId, hard)
EmptyFolderRequest(folderId, hard, normal, associated, subfolders) ==
    [Request("EmptyFolderRequest") EXCEPT !.folderId = folderId,
        !.options = <<hard, normal, associated, subfolders>>]

DeleteFolderRequest(folderId, hard) ==
    [Request("DeleteFolderRequest") EXCEPT !.folderId = folderId, !.options = <<hard>>]

\* GetFolderByNameRequest(homedir, parent, name)
GetFolderByNameRequest(parent, name) ==
    [Request("GetFolderByNameRequest") EXCEPT !.folderId = parent, !.options = <<name>>]

\* LoadContentTableRequest(homedir, cpid, folderId, username, tableFlags, restriction)
LoadContentTableRequest(folderId, tableFlags, restriction) ==
    [Request("LoadContentTableRequest") EXCEPT !.folderId = folderId,
        !.tableFlags = tableFlags, !.restriction = restriction]

\* QueryTableRequest(homedir, username, cpid, tableId, proptags, offset, limit)
QueryTableRequestFor(proptags, tableId, rowOffset, rowCount) ==
    [QueryTableRequest(tableId, rowOffset, rowCount) EXCEPT !.options = proptags]

\* DeleteMessagesRequest(homedir, accountId, cpid, username, folderId, messageIds, hard)
DeleteMessagesRequest(accountId, folderId, messageIds, hard) ==
    [Request("DeleteMessagesRequest") EXCEPT !.folderId = folderId,
        !.rows = messageIds, !.options = <<accountId, hard>>]

\* GetMessagePropertiesRequest(homedir, username, cpid, messageId, proptags)
GetMessagePropertiesRequest(messageId, proptags) ==
    [Request("GetMessagePropertiesRequest") EXCEPT !.rows = <<messageId>>,
        !.options = proptags]

\* AllocateCnRequest(homedir) and CreateFolderByPropertiesRequest(homedir, cpid, propvals)
AllocateCnRequest == Request("AllocateCnRequest")

CreateFolderByPropertiesRequest(propvals) ==
    [Request("CreateFolderByPropertiesRequest") EXCEPT !.rows = propvals]

\* The folders a caller names (0 is no folder), and the root of a private store.
FolderIds == {"0", "F"}
PrivateRoot == "makeEidEx(1, PrivateFid::ROOT)"

\* The Load...Table responses the server may give.
LoadResponses == [tableId : 1..MaxTableId, rowCount : 0..MaxRows]

\* The locals once a Load...Table response r is parsed.
Loaded(r) ==
    [NoLocals EXCEPT !.tableId = r.tableId, !.rowCount = r.rowCount,
                     !.issued = r.tableId, !.reported = r.rowCount]

\* An operation starts with the send of its first request.
Start(t, fn, pc, args, req) ==
    /\ Begin(t, fn, pc, args)
    /\ ExmdbClient_send(t, req)
    /\ UNCHANGED <<sock, params, flags, fds, newconn, outstanding>>

\* An operation whose send returned goes on with its next request.
Continue(t, from, to, loc, req) ==
    /\ call[t].pc = from
    /\ snd[t].pc = "ok"
    /\ call' = [call EXCEPT ![t].pc = to, ![t].loc = loc]
    /\ ExmdbClient_send(t, req)
    /\ UNCHANGED <<sock, params, flags, fds, newconn, trace, outstanding, overlapped>>

\* An operation whose last send returned returns v.
Return(t, from, loc, v) ==
    /\ call[t].pc = from
    /\ snd[t].pc = "ok"
    /\ call' = [call EXCEPT ![t].pc = "done", ![t].loc = loc,
                            ![t].out = [kind |-> "ok", code |-> 0, value |-> v]]
    /\ snd' = [snd EXCEPT ![t].pc = "idle"]
    /\ UNCHANGED <<sock, params, flags, buffer, fds, newconn, trace, outstanding,
                   overlapped>>

\* -------------------------------------------------------- ExmdbQueries

\* The fuzzy levels a caller passes: FL_FULLSTRING, FL_SUBSTRING
FuzzyLevels == {0, 1}

\* ExmdbQueries::findFolder
findFolder(t) ==
    \E parent \in FolderIds, recursive \in BOOLEAN, fuzzyLevel \in FuzzyLevels :
        Start(t, "findFolder", "findFolder_loading",
              [NoArgs EXCEPT !.parent = parent, !.recursive = recursive],
              LoadHierarchyTableRequest(IF parent # "0" THEN parent ELSE PrivateRoot,
                                        IF recursive THEN "DEPTH" ELSE "0",
                                        Restriction_CONTENT(fuzzyLevel, 0,
                                            TaggedPropval("DISPLAYNAME", "name"))))

findFolder_query(t) ==
    \E r \in LoadResponses :
        Continue(t, "findFolder_loading", "findFolder_querying", Loaded(r),
                 QueryTableRequest(r.tableId, 0, r.rowCount))

findFolder_unload(t) ==
    Continue(t, "findFolder_querying", "findFolder_unloading", call[t].loc,
             UnloadTableRequest(call[t].loc.tableId))

findFolder_return(t) ==
    Return(t, "findFolder_unloading", call[t].loc, 0)

\* The limit computed without regard to the offset.
EffectiveLimit_offsetIgnored(offset, limit, rowCount) ==
    IF limit # 0 \/ rowCount < limit THEN limit ELSE rowCount

\* limit = offset || limit || lhtResponse.rowCount < limit? limit : lhtResponse.rowCount
EffectiveLimit(offset, limit, rowCount) ==
    IF offset # 0 \/ limit # 0 \/ rowCount < limit THEN limit ELSE rowCount

\* ExmdbQueries::listFolders (with the default restriction)
listFolders(t) ==
    \E recursive \in BOOLEAN, offset \in 0..MaxLimit, limit \in 0..MaxLimit :
        Start(t, "listFolders", "listFolders_loading",
              [NoArgs EXCEPT !.parent = "F", !.recursive = recursive,
                             !.offset = offset, !.limit = limit],
              LoadHierarchyTableRequest("F", IF recursive THEN "DEPTH" ELSE "0",
                                        Restriction_XNULL))

listFolders_query(t) ==
    \E r \in LoadResponses :
        Continue(t, "listFolders_loading", "listFolders_querying", Loaded(r),
                 QueryTableRequest(r.tableId, call[t].args.offset,
                     EffectiveLimit(call[t].args.offset, call[t].args.limit, r.rowCount)))

\* listFolders unloading by the row count in place of the table handle.
listFolders_unload_wrongHandle(t) ==
    Continue(t, "listFolders_querying", "listFolders_unloading", call[t].loc,
             UnloadTableRequest(call[t].loc.rowCount))

\* send<UnloadTableRequest>(homedir, lhtResponse.tableId)
listFolders_unload(t) ==
    Continue(t, "listFolders_querying", "listFolders_unloading", call[t].loc,
             UnloadTableRequest(call[t].loc.tableId))

listFolders_return(t) ==
    Return(t, "listFolders_unloading", call[t].loc, 0)

\* ExmdbQueries::getFolderMemberList, called by a caller
getFolderMemberList(t) ==
    Start(t, "getFolderMemberList", "getFolderMemberList_loading",
          [NoArgs EXCEPT !.folderId = "F"], LoadPermissionTableRequest("F"))

\* The part of getFolderMemberList after the first send, whatever called it.
getFolderMemberList_query(t) ==
    \E r \in LoadResponses :
        Continue(t, "getFolderMemberList_loading", "getFolderMemberList_querying",
                 Loaded(r), QueryTableRequest(r.tableId, 0, r.rowCount))

getFolderMemberList_unload(t) ==
    Continue(t, "getFolderMemberList_querying", "getFolderMemberList_unloading",
             call[t].loc, UnloadTableRequest(call[t].loc.tableId))

getFolderMemberList_return(t) ==
    /\ call[t].fn = "getFolderMemberList"
    /\ Return(t, "getFolderMemberList_unloading", call[t].loc, 0)

\* ---------------------------------------------------- folder members

\* The member ids, addresses and rows a permission table may hold.
MemberIds == {ID_ANONYMOUS, 0, 1}
Mails == {"a", "b"}
Members == [id : MemberIds, rights : 0..MaxRights, mail : Mails]
MemberTables == UNION {[1..n -> Members] : n \in 0..MaxMembers}

\* FolderMemberList::Member::special
special(member) == member.id = 0 \/ member.id = ID_ANONYMOUS

\* FolderMemberList::Member(): id = 0, rights = 0, no address
DefaultMember == [id |-> 0, rights |-> 0, mail |-> ""]

\* a | b and a & ~b on unsigned integers
BitOr(a, b) == a + b - BitAnd(a, b)
AndNot(a, b) == a - BitAnd(a, b)

\* std::find_if: the index of the first row in S, 0 for end()
FirstIndex(S) == IF S = {} THEN 0 ELSE CHOOSE i \in S : \A j \in S : i <= j

\* uint32_t modified = remove? existing.rights & ~rights : existing.rights | rights
Modified(existing, rights, remove) ==
    IF remove THEN AndNot(existing.rights, rights) ELSE BitOr(existing.rights, rights)

\* PermissionData(flags, propvals): the row operation and the properties it carries
PermissionData(rowFlags, tags, mail, rights, id) ==
    [flags |-> rowFlags, id |-> id, rights |-> rights, mail |-> mail, tags |-> tags]

\* The row setFolderMember(homedir, folderId, existing, rights, remove) builds.
MemberRow(existing, modified) ==
    IF modified = 0
    THEN PermissionData(REMOVE_ROW, <<"MEMBERID">>, "", 0, existing.id)
    ELSE IF existing.id = 0
    THEN PermissionData(ADD_ROW, <<"SMTPADDRESS", "MEMBERRIGHTS">>,
                        existing.mail, modified, 0)
    ELSE PermissionData(MODIFY_ROW, <<"SMTPADDRESS", "MEMBERRIGHTS", "MEMBERID">>,
                        existing.mail, modified, existing.id)

\* ExmdbQueries::setFolderMember(homedir, folderId, existing, rights, remove),
\* called with the member list read into loc.
setFolderMember(t, loc, existing) ==
    LET modified == Modified(existing, call[t].args.rights, call[t].args.remove)
    IN  IF modified = existing.rights
        THEN Return(t, "getFolderMemberList_unloading", loc, modified)
        ELSE Continue(t, "getFolderMemberList_unloading", "setFolderMember_updating",
                      [loc EXCEPT !.modified = modified],
                      UpdateFolderPermissionRequest(call[t].args.folderId,
                                                    <<MemberRow(existing, modified)>>))

\* ExmdbQueries::setFolderMember(homedir, folderId, username, rights, remove)
setFolderMember_username(t) ==
    \E username \in Mails, rights \in 0..MaxRights, remove \in BOOLEAN :
        Start(t, "setFolderMember_username", "getFolderMemberList_loading",
              [NoArgs EXCEPT !.folderId = "F", !.username = username,
                             !.rights = rights, !.remove = remove],
              LoadPermissionTableRequest("F"))

\* ... once getFolderMemberList returned the rows of the QueryTable response
setFolderMember_username_found(t) ==
    /\ call[t].fn = "setFolderMember_username"
    /\ \E entries \in MemberTables :
          LET it == FirstIndex({i \in DOMAIN entries :
                                    entries[i].mail = call[t].args.username})
              found == IF it = 0 THEN DefaultMember ELSE entries[it]
              existing == [found EXCEPT !.mail = call[t].args.username]
          IN  setFolderMember(t, [call[t].loc EXCEPT !.entries = entries], existing)

\* ExmdbQueries::setFolderMember(homedir, folderId, ID, rights, remove)
setFolderMember_ID(t) ==
    \E ID \in MemberIds, rights \in 0..MaxRights, remove \in BOOLEAN :
        Start(t, "setFolderMember_ID", "getFolderMemberList_loading",
              [NoArgs EXCEPT !.folderId = "F", !.id = ID,
                             !.rights = rights, !.remove = remove],
              LoadPermissionTableRequest("F"))

setFolderMember_ID_found(t) ==
    /\ call[t].fn = "setFolderMember_ID"
    /\ \E entries \in MemberTables :
          LET it == FirstIndex({i \in DOMAIN entries : entries[i].id = call[t].args.id})
              loc == [call[t].loc EXCEPT !.entries = entries]
          IN  IF it = 0
              THEN Return(t, "getFolderMemberList_unloading", loc, 0)
              ELSE setFolderMember(t, loc, entries[it])

\* return modified; once UpdateFolderPermission is answered
setFolderMember_return(t) ==
    Return(t, "setFolderMember_updating", call[t].loc, call[t].loc.modified)

\* The member lists setFolderMembers may read: the server keeps one row per
\* user, each with its own id.
ListedIds == {ID_ANONYMOUS, 0, 1, 2}
Listed == [id : ListedIds, rights : 0..MaxRights, mail : Mails]
ListedTables ==
    {m \in UNION {[1..n -> Listed] : n \in 0..MaxListed} :
        \A i, j \in DOMAIN m : (m[i].id = m[j].id \/ m[i].mail = m[j].mail) => i = j}

\* The lists of usernames a caller may pass.
UsernameLists == UNION {[1..n -> Mails] : n \in 0..MaxUsernames}

\* std::unordered_set<std::string> requested(usernames.begin(), usernames.end())
Requested(usernames) == {usernames[i] : i \in DOMAIN usernames}

\* The orders in which a range-for may visit an unordered_set.
Orders(S) ==
    {s \in [1..Cardinality(S) -> S] : \A i, j \in 1..Cardinality(S) : s[i] = s[j] => i = j}

\* uint32_t newrights = contained? member.rights | rights : member.rights & ~rights
newrights_alwaysGranted(member, contained, rights) ==
    BitOr(member.rights, rights)
newrights(member, contained, rights) ==
    IF contained THEN BitOr(member.rights, rights) ELSE AndNot(member.rights, rights)

\* The first loop of setFolderMembers: the rows for the members listed, and
\* the usernames left in requested.
RECURSIVE memberRows(_, _, _)
memberRows(members, requested, rights) ==
    IF members = <<>>
    THEN [permissions |-> <<>>, requested |-> requested]
    ELSE LET member == Head(members)
         IN  IF special(member)
             THEN memberRows(Tail(members), requested, rights)
             ELSE LET contained == member.mail \in requested
                      new == newrights(member, contained, rights)
                      rest == memberRows(Tail(members), requested \ {member.mail}, rights)
                  IN  IF new = member.rights
                      THEN rest
                      ELSE [rest EXCEPT !.permissions =
                              <<PermissionData(IF new # 0 THEN MODIFY_ROW ELSE REMOVE_ROW,
                                               <<"MEMBERID", "MEMBERRIGHTS">>,
                                               "", new, member.id)>> \o @]

\* The second loop: one ADD_ROW per username left, in the order visited.
addRows(order, rights) ==
    [i \in DOMAIN order |->
        PermissionData(ADD_ROW, <<"SMTPADDRESS", "MEMBERRIGHTS">>, order[i], rights, 0)]

\* ExmdbQueries::setFolderMembers(homedir, folderId, usernames, rights)
setFolderMembers(t) ==
    \E usernames \in UsernameLists, rights \in 0..MaxRights :
        Start(t, "setFolderMembers", "getFolderMemberList_loading",
              [NoArgs EXCEPT !.folderId = "F", !.rights = rights,
                             !.usernames = usernames],
              LoadPermissionTableRequest("F"))

\* ... once getFolderMemberList returned the rows of the QueryTable response:
\* the two loops, then the send when there is a row, else the return.
setFolderMembers_sendsEmpty(t) ==
    /\ call[t].fn = "setFolderMembers"
    /\ \E members \in ListedTables :
          LET first == memberRows(members, Requested(call[t].args.usernames),
                                  call[t].args.rights)
          IN  \E order \in Orders(first.requested) :
                LET permissions == first.permissions \o addRows(order, call[t].args.rights)
                    loc == [call[t].loc EXCEPT !.entries = members,
                                               !.permissions = permissions]
                IN  Continue(t, "getFolderMemberList_unloading",
                             "setFolderMembers_updating", loc,
                             UpdateFolderPermissionRequest(call[t].args.folderId,
                                                           permissions))
setFolderMembers_diff(t) ==
    /\ call[t].fn = "setFolderMembers"
    /\ \E members \in ListedTables :
          LET first == memberRows(members, Requested(call[t].args.usernames),
                                  call[t].args.rights)
          IN  \E order \in Orders(first.requested) :
                LET permissions == first.permissions \o addRows(order, call[t].args.rights)
                    loc == [call[t].loc EXCEPT !.entries = members,
                                               !.permissions = permissions]
                IN  IF permissions # <<>>
                    THEN Continue(t, "getFolderMemberList_unloading",
                                  "setFolderMembers_updating", loc,
                                  UpdateFolderPermissionRequest(call[t].args.folderId,
                                                                permissions))
                    ELSE Return(t, "getFolderMemberList_unloading", loc, 0)

\* return permissions.size(); once UpdateFolderPermission is answered
setFolderMembers_return(t) ==
    Return(t, "setFolderMembers_updating", call[t].loc, Len(call[t].loc.permissions))

\* ----------------------------------------------------------- folders

\* A 64 bit value is the sequence of its 8 bytes in memory, on a little-endian
\* host: the least significant byte first.
Reverse(bytes) == [i \in 1..Len(bytes) |-> bytes[Len(bytes) + 1 - i]]

\* be64toh and htobe64 on a little-endian host swap the bytes.
be64toh(value) == Reverse(value)
htobe64(value) == Reverse(value)

\* value << 16 on uint64_t: the two most significant bytes are lost
ShiftLeft16(value) == <<0, 0>> \o SubSeq(value, 1, 6)

\* util::valueToGc: return htobe64(value<<16)
valueToGc(value) == htobe64(ShiftLeft16(value))

\* value & 0xFFFFFFFFFFFF: the two most significant bytes are cleared
Mask48(value) == [i \in 1..8 |-> IF i <= 6 THEN value[i] ELSE 0]

\* util::gcToValue: return be64toh(gc)&0xFFFFFFFFFFFF
gcToValue(gc) == Mask48(be64toh(gc))

\* The values below 2^48 of the model: six bytes from GcByteValues, then two
\* zero bytes.
GcByteValues == {0, 1, 255}
Values48 == {b \o <<0, 0>> : b \in [1..6 -> GcByteValues]}

\* A caller converts a value to a GC buffer ...
util_valueToGc(t) ==
    /\ call[t].pc = "idle"
    /\ \E x \in Values48 :
         call' = [call EXCEPT ![t] =
                    [IdleCall EXCEPT !.fn = "gcToValue", !.pc = "converted",
                                     !.loc.x = x, !.loc.gc = valueToGc(x)]]
    /\ UNCHANGED <<sock, params, flags, buffer, fds, snd, newconn, trace,
                   outstanding, overlapped>>

\* ... and the GC buffer back to a value.
util_gcToValue(t) ==
    /\ call[t].pc = "converted"
    /\ call' = [call EXCEPT ![t].pc = "done",
                            ![t].out = [kind |-> "ok", code |-> 0,
                                        value |-> gcToValue(call[t].loc.gc)]]
    /\ UNCHANGED <<sock, params, flags, buffer, fds, snd, newconn, trace,
                   outstanding, overlapped>>

\* buff.push(v) of a 16 and of a 32 bit integer: little-endian
Push16(v) == <<v % 256, (v \div 256) % 256>>
Push32(v) == Push16(v % 65536) \o Push16(v \div 65536)

\* GUID::fromDomainId and Serialize<GUID>::push: timeLow, timeMid,
\* timeHighVersion, clockSeq, node
GUID_fromDomainId(domainId) ==
    [timeLow |-> domainId, timeMid |-> 2811, timeHighVersion |-> 32246,
     clockSeq |-> <<145, 146>>, node |-> <<73, 136, 106, 167, 56, 206>>]
PushGUID(guid) ==
    Push32(guid.timeLow) \o Push16(guid.timeMid) \o Push16(guid.timeHighVersion)
    \o guid.clockSeq \o guid.node

\* SizedXID(size, guid, localId), SizedXID::writeXID (push(guid), then
\* push_raw(&localId, size-16)) and Serialize<SizedXID>::push (push(size),
\* then writeXID); a size outside 17..24 throws SerializationError
SizedXID(size, guid, localId) == [size |-> size, guid |-> guid, localId |-> localId]
writeXID(xid) == PushGUID(xid.guid) \o SubSeq(xid.localId, 1, xid.size - 16)
PushSizedXID(xid) == <<xid.size>> \o writeXID(xid)

\* The change numbers AllocateCn answers with, as the 8 bytes parsed into
\* acResponse.changeNum, and the domains and container classes a caller names.
ChangeNums ==
    {<<0, 0, 0, 0, 0, 0, 0, 1>>, <<0, 0, 0, 0, 0, 0, 1, 2>>,
     <<0, 0, 9, 8, 7, 6, 5, 4>>, <<1, 0, 0, 0, 0, 0, 0, 5>>}
DomainIds == {42, 258}
Containers == {"", "IPF.Note"}

\* ExmdbQueries::createFolder(homedir, domainId, folderName, container, comment)
createFolder(t) ==
    \E domainId \in DomainIds, container \in Containers :
        Start(t, "createFolder", "createFolder_allocating",
              [NoArgs EXCEPT !.id = domainId, !.container = container],
              AllocateCnRequest)

\* ... once AllocateCn is answered: the property values, with the scratch
\* buffer tmpbuff holding the XID and then the sized XID
createFolder_create_noSwap(t) ==
    \E changeNum \in ChangeNums :
        LET xid == SizedXID(22, GUID_fromDomainId(call[t].args.id), valueToGc(changeNum))
            first == writeXID(xid)
            tmpbuff == first \o PushSizedXID(xid)
            offset == Len(first)
            propvals ==
                <<TaggedPropval("PARENTFOLDERID", "makeEidEx(1, PublicFid::IPMSUBTREE)"),
                  TaggedPropval("FOLDERTYPE", "GENERIC"),
                  TaggedPropval("DISPLAYNAME", "folderName"),
                  TaggedPropval("COMMENT", "comment"),
                  TaggedPropval("CREATIONTIME", "now"),
                  TaggedPropval("LASTMODIFICATIONTIME", "now"),
                  TaggedPropval("CHANGENUMBER", changeNum),
                  TaggedPropval("CHANGEKEY", SubSeq(tmpbuff, 1, offset)),
                  TaggedPropval("PREDECESSORCHANGELIST",
                                SubSeq(tmpbuff, offset + 1, Len(tmpbuff)))>>
                \o (IF call[t].args.container # ""
                    THEN <<TaggedPropval("CONTAINERCLASS", call[t].args.container)>>
                    ELSE <<>>)
        IN  Continue(t, "createFolder_allocating", "createFolder_creating",
                     [call[t].loc EXCEPT !.changeNum = changeNum],
                     CreateFolderByPropertiesRequest(propvals))
createFolder_create(t) ==
    \E changeNum \in ChangeNums :
        LET xid == SizedXID(22, GUID_fromDomainId(call[t].args.id),
                            valueToGc(be64toh(changeNum)))
            first == writeXID(xid)
            tmpbuff == first \o PushSizedXID(xid)
            offset == Len(first)
            propvals ==
                <<TaggedPropval("PARENTFOLDERID", "makeEidEx(1, PublicFid::IPMSUBTREE)"),
                  TaggedPropval("FOLDERTYPE", "GENERIC"),
                  TaggedPropval("DISPLAYNAME", "folderName"),
                  TaggedPropval("COMMENT", "comment"),
                  TaggedPropval("CREATIONTIME", "now"),
                  TaggedPropval("LASTMODIFICATIONTIME", "now"),
                  TaggedPropval("CHANGENUMBER", changeNum),
                  TaggedPropval("CHANGEKEY", SubSeq(tmpbuff, 1, offset)),
                  TaggedPropval("PREDECESSORCHANGELIST",
                                SubSeq(tmpbuff, offset + 1, Len(tmpbuff)))>>
                \o (IF call[t].args.container # ""
                    THEN <<TaggedPropval("CONTAINERCLASS", call[t].args.container)>>
                    ELSE <<>>)
        IN  Continue(t, "createFolder_allocating", "createFolder_creating",
                     [call[t].loc EXCEPT !.changeNum = changeNum],
                     CreateFolderByPropertiesRequest(propvals))

\* return send<CreateFolderByPropertiesRequest>(..).folderId
createFolder_return(t) ==
    \E folderId \in 0..1 :
        Return(t, "createFolder_creating", call[t].loc, folderId)

\* ExmdbQueries::deleteFolder(homedir, folderId, clear)
deleteFolder_neverClears(t) ==
    \E folderId \in FolderIds, clear \in BOOLEAN :
        Start(t, "deleteFolder", "deleteFolder_deleting",
              [NoArgs EXCEPT !.folderId = folderId, !.clear = clear],
              DeleteFolderRequest(folderId, TRUE))
deleteFolder(t) ==
    \E folderId \in FolderIds, clear \in BOOLEAN :
        IF clear
        THEN Start(t, "deleteFolder", "deleteFolder_emptying",
                   [NoArgs EXCEPT !.folderId = folderId, !.clear = clear],
                   EmptyFolderRequest(folderId, TRUE, TRUE, TRUE, TRUE))
        ELSE Start(t, "deleteFolder", "deleteFolder_deleting",
                   [NoArgs EXCEPT !.folderId = folderId, !.clear = clear],
                   DeleteFolderRequest(folderId, TRUE))

\* ... once EmptyFolder is answered
deleteFolder_delete(t) ==
    Continue(t, "deleteFolder_emptying", "deleteFolder_deleting", call[t].loc,
             DeleteFolderRequest(call[t].args.folderId, TRUE))

\* return send<DeleteFolderRequest>(..).success; the flag is 0 or 1 on the wire
deleteFolder_return(t) ==
    \E success \in 0..1 :
        Return(t, "deleteFolder_deleting", [call[t].loc EXCEPT !.reported = success],
               success)

\* ----------------------------------------------------------- devices

\* The root of a public store, the folder ids GetFolderByName answers with for
\* the sync folder and for a device folder (0: none), the device ids a caller
\* names.
PublicRoot == "makeEidEx(1, PublicFid::ROOT)"
SyncFolderIds == {"0", "S"}
DeviceIds == {"d1", "d2"}
SyncFolderName == "GS-SyncState"

\* The rows a QueryTable for MID returns, and the ids they hold:
\* for(row : table.entries) for(tag : row) if(tag.tag == PropTag::MID) ...
MidRows == {<<>>} \cup {<<[value |-> v, tag |-> "MID"]>> : v \in 1..MaxMid}
MidTables == UNION {[1..n -> MidRows] : n \in 0..MaxRows}

RECURSIVE RowMids(_)
RowMids(row) ==
    IF row = <<>> THEN <<>>
    ELSE (IF Head(row).tag = "MID" THEN <<Head(row).value>> ELSE <<>>)
         \o RowMids(Tail(row))

RECURSIVE Mids(_)
Mids(entries) ==
    IF entries = <<>> THEN <<>> ELSE RowMids(Head(entries)) \o Mids(Tail(entries))

\* Restriction::PROPERTY(Restriction::NE, 0, TaggedPropval(DISPLAYNAME, "devicedata"))
noDD == Restriction_PROPERTY(Op("NE"), 0, TaggedPropval("DISPLAYNAME", "devicedata"))

\* ExmdbQueries::removeDevice(homedir, folderName, deviceId)
removeDevice(t) ==
    \E deviceId \in DeviceIds :
        Start(t, "removeDevice", "syncFolder", [NoArgs EXCEPT !.username = deviceId],
              GetFolderByNameRequest(PublicRoot, SyncFolderName))

\* auto deviceFolder = send<GetFolderByNameRequest>(homedir, syncFolder.folderId, deviceId)
\* in removeDevice and in resyncDevice
deviceFolder(t) ==
    \E folderId \in SyncFolderIds :
        Continue(t, "syncFolder", "deviceFolder", [call[t].loc EXCEPT !.parent = folderId],
                 GetFolderByNameRequest(folderId, call[t].args.username))

removeDevice_empty(t) ==
    /\ call[t].fn = "removeDevice"
    /\ \E folderId \in FolderIds :
          Continue(t, "deviceFolder", "removeDevice_emptying",
                   [call[t].loc EXCEPT !.folderId = folderId],
                   EmptyFolderRequest(folderId, TRUE, FALSE, TRUE, FALSE))

removeDevice_delete(t) ==
    Continue(t, "removeDevice_emptying", "removeDevice_deleting", call[t].loc,
             DeleteFolderRequest(call[t].loc.folderId, TRUE))

removeDevice_return(t) ==
    Return(t, "removeDevice_deleting", call[t].loc, 0)

\* ExmdbQueries::resyncDevice(homedir, folderName, deviceId, userId)
resyncDevice(t) ==
    \E deviceId \in DeviceIds, userId \in 1..2 :
        Start(t, "resyncDevice", "syncFolder",
              [NoArgs EXCEPT !.username = deviceId, !.id = userId],
              GetFolderByNameRequest(PublicRoot, SyncFolderName))

resyncDevice_load(t) ==
    /\ call[t].fn = "resyncDevice"
    /\ \E folderId \in FolderIds :
          Continue(t, "deviceFolder", "resyncDevice_loading",
                   [call[t].loc EXCEPT !.folderId = folderId],
                   LoadContentTableRequest(folderId, "2", noDD))

resyncDevice_query(t) ==
    \E r \in LoadResponses :
        Continue(t, "resyncDevice_loading", "resyncDevice_querying",
                 [call[t].loc EXCEPT !.tableId = r.tableId, !.rowCount = r.rowCount,
                                     !.issued = r.tableId, !.reported = r.rowCount],
                 QueryTableRequestFor(<<"MID">>, r.tableId, 0, r.rowCount))

resyncDevice_unload(t) ==
    \E entries \in MidTables :
        Continue(t, "resyncDevice_querying", "resyncDevice_unloading",
                 [call[t].loc EXCEPT !.entries = entries],
                 UnloadTableRequest(call[t].loc.tableId))

resyncDevice_delete(t) ==
    Continue(t, "resyncDevice_unloading", "resyncDevice_deleting", call[t].loc,
             DeleteMessagesRequest(call[t].args.id, call[t].loc.folderId,
                                   Mids(call[t].loc.entries), TRUE))

\* return !send<DeleteMessagesRequest>(..).partial; the flag is 0 or 1 on the wire
resyncDevice_return(t) ==
    \E partial \in 0..1 :
        Return(t, "resyncDevice_deleting", [call[t].loc EXCEPT !.reported = partial],
               IF partial = 0 THEN 1 ELSE 0)

\* Restriction::AND({PROPERTY(EQ, 0, DISPLAYNAME "devicedata"),
\*                   PROPERTY(EQ, 0, MESSAGECLASS "IPM.Note.GrommunioState")})
ddFilter ==
    Restriction_AND(
        <<Restriction_PROPERTY(Op("EQ"), 0, TaggedPropval("DISPLAYNAME", "devicedata")),
          Restriction_PROPERTY(Op("EQ"), 0,
                               TaggedPropval("MESSAGECLASS", "IPM.Note.GrommunioState"))>>)

\* The rows a QueryTable for FOLDERID and DISPLAYNAME returns (a folder
\* without a name gives a row without DISPLAYNAME), and the properties a
\* GetMessageProperties for BODY returns.
SubfolderRows ==
    {<<[value |-> "F", tag |-> "FOLDERID"]>>}
    \cup {<<[value |-> "F", tag |-> "FOLDERID"], [value |-> d, tag |-> "DISPLAYNAME"]>> :
            d \in DeviceIds}
SubfolderTables == UNION {[1..n -> SubfolderRows] : n \in 0..MaxSubfolders}
BodyPropvals == {<<>>, <<[value |-> "state", tag |-> "BODY"]>>}

\* if(subfolder.size() != 2 || subfolder[0].tag != FOLDERID || subfolder[1].tag != DISPLAYNAME) continue
IsSubfolder(subfolder) ==
    /\ Len(subfolder) = 2
    /\ subfolder[1].tag = "FOLDERID"
    /\ subfolder[2].tag = "DISPLAYNAME"

\* The loop over subfolderIDs.entries, entered after the row at loc.index: the
\* next row that is a subfolder has its content table loaded; after the last
\* row the data is returned.
getSyncData_next(t, from, loc) ==
    LET i == FirstIndex({k \in DOMAIN loc.entries :
                            k > loc.index /\ IsSubfolder(loc.entries[k])})
    IN  IF i = 0
        THEN Return(t, from, loc, Cardinality(loc.data))
        ELSE Continue(t, from, "getSyncData_loading", [loc EXCEPT !.index = i],
                      LoadContentTableRequest(loc.entries[i][1].value, "2", ddFilter))

\* ExmdbQueries::getSyncData(homedir, folderName)
getSyncData(t) ==
    Start(t, "getSyncData", "getSyncData_folder", NoArgs,
          GetFolderByNameRequest(PublicRoot, SyncFolderName))

getSyncData_load(t) ==
    \E folderId \in SyncFolderIds :
        Continue(t, "getSyncData_folder", "getSyncData_listing",
                 [call[t].loc EXCEPT !.parent = folderId],
                 LoadHierarchyTableRequest(folderId, "0", Restriction_XNULL))

getSyncData_query(t) ==
    \E r \in LoadResponses :
        Continue(t, "getSyncData_listing", "getSyncData_querying",
                 [call[t].loc EXCEPT !.tableId = r.tableId, !.rowCount = r.rowCount],
                 QueryTableRequestFor(<<"FOLDERID", "DISPLAYNAME">>, r.tableId, 0,
                                      r.rowCount))

getSyncData_unload(t) ==
    \E entries \in SubfolderTables :
        Continue(t, "getSyncData_querying", "getSyncData_unloading",
                 [call[t].loc EXCEPT !.entries = entries],
                 UnloadTableRequest(call[t].loc.tableId))

getSyncData_subfolders(t) ==
    getSyncData_next(t, "getSyncData_unloading", call[t].loc)

getSyncData_content_query(t) ==
    \E r \in LoadResponses :
        Continue(t, "getSyncData_loading", "getSyncData_content_querying",
                 [call[t].loc EXCEPT !.tableId = r.tableId, !.rowCount = r.rowCount],
                 QueryTableRequestFor(<<"MID">>, r.tableId, 0, r.rowCount))

getSyncData_content_unload(t) ==
    \E table \in MidTables :
        Continue(t, "getSyncData_content_querying", "getSyncData_content_unloading",
                 [call[t].loc EXCEPT !.table = table, !.mids = @ \o Mids(table)],
                 UnloadTableRequest(call[t].loc.tableId))

\* if(table.entries.empty()) continue; auto& msgobject = table.entries[0]; ...
getSyncData_message(t) ==
    LET table == call[t].loc.table
    IN  IF table = <<>>
        THEN getSyncData_next(t, "getSyncData_content_unloading", call[t].loc)
        ELSE IF Len(table[1]) # 1 \/ table[1][1].tag # "MID"
        THEN getSyncData_next(t, "getSyncData_content_unloading", call[t].loc)
        ELSE Continue(t, "getSyncData_content_unloading", "getSyncData_fetching",
                      call[t].loc,
                      GetMessagePropertiesRequest(table[1][1].value, <<"BODY">>))

\* data.emplace(subfolder[1].value.str, message.propvals[0].value.str)
getSyncData_accumulate(t) ==
    /\ call[t].pc = "getSyncData_fetching"
    /\ \E propvals \in BodyPropvals :
        LET loc == call[t].loc
            displayName == loc.entries[loc.index][2].value
        IN  IF Len(propvals) # 1
            THEN getSyncData_next(t, "getSyncData_fetching", loc)
            ELSE IF propvals[1].tag # "BODY" \/ \E e \in loc.data : e[1] = displayName
            THEN getSyncData_next(t, "getSyncData_fetching", loc)
            ELSE getSyncData_next(t, "getSyncData_fetching",
                                  [loc EXCEPT !.data = @ \cup {<<displayName,
                                                                 propvals[1].value>>}])

\* The caller takes the result (or the exception) of its operation.
Finish(t) ==
    /\ call[t].pc = "done"
    /\ call' = [call EXCEPT ![t] = IdleCall]
    /\ snd' = [snd EXCEPT ![t] = IdleSend]
    /\ trace' = [trace EXCEPT ![t] = <<>>]
    /\ UNCHANGED <<sock, params, flags, buffer, fds, newconn, outstanding, overlapped>>

\* -------------------------------------------------------- TaggedPropval

\* The property type codes (PropvalType).
PropvalType(name) ==
    CASE name = "UNSPECIFIED" -> 0
      [] name = "SHORT" -> 2
      [] name = "LONG" -> 3
      [] name = "FLOAT" -> 4
      [] name = "DOUBLE" -> 5
      [] name = "CURRENCY" -> 6
      [] name = "FLOATINGTIME" -> 7
      [] name = "ERROR" -> 10
      [] name = "BYTE" -> 11
      [] name = "OBJECT" -> 13
      [] name = "LONGLONG" -> 20
      [] name = "STRING" -> 30
      [] name = "WSTRING" -> 31
      [] name = "FILETIME" -> 64
      [] name = "BINARY" -> 258
      [] name = "SHORT_ARRAY" -> 4098
      [] name = "LONG_ARRAY" -> 4099
      [] name = "FLOAT_ARRAY" -> 4100
      [] name = "DOUBLE_ARRAY" -> 4101
      [] name = "CURRENCY_ARRAY" -> 4102
      [] name = "FLOATINGTIME_ARRAY" -> 4103
      [] name = "LONGLONG_ARRAY" -> 4116
      [] name = "STRING_ARRAY" -> 4126
      [] name = "WSTRING_ARRAY" -> 4127
      [] name = "BINARY_ARRAY" -> 4354

TypeNames ==
    {"STRING", "UNSPECIFIED", "SHORT", "LONG", "FLOAT", "DOUBLE", "CURRENCY",
     "FLOATINGTIME", "ERROR", "BYTE", "OBJECT", "LONGLONG",
     "WSTRING", "FILETIME", "BINARY", "SHORT_ARRAY", "LONG_ARRAY",
     "FLOAT_ARRAY", "DOUBLE_ARRAY", "CURRENCY_ARRAY", "FLOATINGTIME_ARRAY",
     "LONGLONG_ARRAY", "STRING_ARRAY", "WSTRING_ARRAY", "BINARY_ARRAY"}

IsType(type, names) == \E name \in names : type = PropvalType(name)

\* tag & 0xFFFF, the type code of a tag.
tagType(tag) == tag % 65536

\* The member of the value union that the switch over the type reads or
\* writes, in the deserializing constructor and in Serialize::push alike;
\* "none" is the default branch.
Member(type) ==
    CASE IsType(type, {"BYTE"}) -> "u8"
      [] IsType(type, {"SHORT"}) -> "u16"
      [] IsType(type, {"LONG", "ERROR"}) -> "u32"
      [] IsType(type, {"CURRENCY", "LONGLONG", "FILETIME"}) -> "u64"
      [] IsType(type, {"FLOAT"}) -> "f"
      [] IsType(type, {"DOUBLE", "FLOATINGTIME"}) -> "d"
      [] IsType(type, {"STRING", "WSTRING"}) -> "str"
      [] IsType(type, {"BINARY"}) -> "data"
      [] IsType(type, {"SHORT_ARRAY"}) -> "a16"
      [] IsType(type, {"LONG_ARRAY"}) -> "a32"
      [] IsType(type, {"CURRENCY_ARRAY", "LONGLONG_ARRAY"}) -> "a64"
      [] IsType(type, {"FLOAT_ARRAY"}) -> "af"
      [] IsType(type, {"DOUBLE_ARRAY", "FLOATINGTIME_ARRAY"}) -> "ad"
      [] IsType(type, {"STRING_ARRAY", "WSTRING_ARRAY"}) -> "astr"
      [] IsType(type, {"BINARY_ARRAY"}) -> "adata"
      [] OTHER -> "none"

\* The element of an array member (VArray<T>), "none" for the others.
ElementOf(member) ==
    CASE member = "a16" -> "u16"
      [] member = "a32" -> "u32"
      [] member = "a64" -> "u64"
      [] member = "af" -> "f"
      [] member = "ad" -> "d"
      [] member = "astr" -> "str"
      [] member = "adata" -> "data"
      [] OTHER -> "none"

\* sizeof of a numeric member; floats travel as their bit pattern.
SizeOf(member) ==
    CASE member = "u8" -> 1
      [] member = "u16" -> 2
      [] member \in {"f", "u32"} -> 4
      [] member \in {"d", "u64"} -> 8

Take(s, n) == SubSeq(s, 1, n)
Drop(s, n) == SubSeq(s, n + 1, Len(s))

\* IOBuffer::push of an integer of nbytes bytes: little-endian.
RECURSIVE PushInt(_, _)
PushInt(value, nbytes) ==
    IF nbytes = 0 THEN <<>>
    ELSE <<value % 256>> \o PushInt(value \div 256, nbytes - 1)

\* IOBuffer::pop of an integer of nbytes bytes.
RECURSIVE PopInt(_, _)
PopInt(bytes, nbytes) ==
    IF nbytes = 0 THEN 0
    ELSE bytes[1] + 256 * PopInt(Tail(bytes), nbytes - 1)

\* The length of the C string at the head of the bytes.
strlen(bytes) ==
    CHOOSE n \in 0 .. Len(bytes) - 1 :
        bytes[n + 1] = 0 /\ \A k \in 1 .. n : bytes[k] # 0

\* buff << v for a number, a C string (NUL-terminated) or a VArray<uint8_t>
\* (count, then the raw bytes).
PushElement(member, v) ==
    CASE member = "str" -> v \o <<0>>
      [] member = "data" -> PushInt(Len(v), 4) \o v
      [] OTHER -> PushInt(v, SizeOf(member))

\* buff >> v: the value read and the bytes left.
PopElement(member, bytes) ==
    CASE member = "str" ->
            [value |-> Take(bytes, strlen(bytes)),
             rest |-> Drop(bytes, strlen(bytes) + 1)]
      [] member = "data" ->
            [value |-> Take(Drop(bytes, 4), PopInt(bytes, 4)),
             rest |-> Drop(bytes, 4 + PopInt(bytes, 4))]
      [] OTHER ->
            [value |-> PopInt(bytes, SizeOf(member)),
             rest |-> Drop(bytes, SizeOf(member))]

\* Serialize<VArray<T>>::push after the count: each element in turn.
RECURSIVE PushElements(_, _)
PushElements(member, va) ==
    IF va = <<>> THEN <<>>
    ELSE PushElement(member, Head(va)) \o PushElements(member, Tail(va))

\* Serialize<VArray<T>>::pop after the count (for strings, the loop of the
\* deserializing constructor): count elements in turn.
RECURSIVE PopElements(_, _, _)
PopElements(member, count, bytes) ==
    IF count = 0 THEN [value |-> <<>>, rest |-> bytes]
    ELSE LET first == PopElement(member, bytes)
             others == PopElements(member, count - 1, first.rest)
         IN  [value |-> <<first.value>> \o others.value, rest |-> others.rest]

\* buff << pv.value.<member>
PushValue(member, v) ==
    IF ElementOf(member) = "none" THEN PushElement(member, v)
    ELSE PushInt(Len(v), 4) \o PushElements(ElementOf(member), v)

\* buff >> value.<member>
PopValue(member, bytes) ==
    IF ElementOf(member) = "none" THEN PopElement(member, bytes)
    ELSE PopElements(ElementOf(member), PopInt(bytes, 4), Drop(bytes, 4))

\* Serialize<TaggedPropval>::push for a type the switch knows: the tag, the
\* type when the tag's type is UNSPECIFIED, the value.
Serialize_push(pv) ==
    PushInt(pv.tag, 4)
    \o (IF tagType(pv.tag) = PropvalType("UNSPECIFIED")
        THEN PushInt(pv.type, 2) ELSE <<>>)
    \o PushValue(Member(pv.type), pv.value)

\* The head of TaggedPropval(IOBuffer&): the tag, and the type, read from the
\* buffer when the tag is UNSPECIFIED and taken from the tag otherwise.
PopTag(buff) ==
    LET tag == PopInt(buff, 4)
    IN  IF tag = PropvalType("UNSPECIFIED")
        THEN [tag |-> tag, type |-> PopInt(Drop(buff, 4), 2), rest |-> Drop(buff, 6)]
        ELSE [tag |-> tag, type |-> tagType(tag), rest |-> Drop(buff, 4)]

\* The values of the model: property ids, tags, payloads per member. 64 bit
\* numbers keep their upper half zero.
PropIds == {0, 12289}
Tags == {id * 65536 + PropvalType(name) : id \in PropIds, name \in TypeNames}
Trailing == {<<>>, <<7>>}
SeqsUpTo(S, n) == UNION {[1 .. k -> S] : k \in 0 .. n}
ElementPayloads(member) ==
    CASE member = "u8" -> {0, 200}
      [] member = "u16" -> {0, 258}
      [] member = "str" -> {<<>>, <<97>>, <<97, 98>>}
      [] member = "data" -> {<<>>, <<0>>, <<1, 0>>}
      [] OTHER -> {0, 16909060}
Payloads(member) ==
    IF ElementOf(member) = "none" THEN ElementPayloads(member)
    ELSE SeqsUpTo(ElementPayloads(ElementOf(member)), MaxCount)

\* The typed constructors, named by the type of their value parameter: the
\* types each accepts and the member each writes. The copying constructors go
\* through copyData, whose buffer (value.data) is what the typed members alias.
Constructors ==
    {"uint8_t", "uint16_t", "uint32_t", "uint64_t", "float", "double",
     "char*", "void*", "string", "uint16_t*", "uint32_t*", "uint64_t*",
     "float*", "double*", "char**"}

Accepted_anyType(ctor) == TypeNames

Accepted(ctor) ==
    CASE ctor = "uint8_t" -> {"BYTE"}
      [] ctor = "uint16_t" -> {"SHORT"}
      [] ctor = "uint32_t" -> {"LONG", "ERROR"}
      [] ctor = "uint64_t" -> {"CURRENCY", "LONGLONG", "FILETIME"}
      [] ctor = "float" -> {"FLOAT"}
      [] ctor = "double" -> {"DOUBLE", "FLOATINGTIME"}
      [] ctor \in {"char*", "string"} -> {"STRING", "WSTRING"}
      [] ctor = "void*" -> {"BINARY"}
      [] ctor = "uint16_t*" -> {"SHORT_ARRAY"}
      [] ctor = "uint32_t*" -> {"LONG_ARRAY"}
      [] ctor = "uint64_t*" -> {"CURRENCY_ARRAY", "LONGLONG_ARRAY"}
      [] ctor = "float*" -> {"FLOAT_ARRAY"}
      [] ctor = "double*" -> {"DOUBLE_ARRAY", "FLOATINGTIME_ARRAY"}
      [] ctor = "char**" -> {"STRING_ARRAY", "WSTRING_ARRAY"}

Written(ctor) ==
    CASE ctor = "uint8_t" -> "u8"
      [] ctor = "uint16_t" -> "u16"
      [] ctor = "uint32_t" -> "u32"
      [] ctor = "uint64_t" -> "u64"
      [] ctor = "float" -> "f"
      [] ctor = "double" -> "d"
      [] ctor \in {"char*", "string"} -> "str"
      [] ctor = "void*" -> "data"
      [] ctor = "uint16_t*" -> "a16"
      [] ctor = "uint32_t*" -> "a32"
      [] ctor = "uint64_t*" -> "a64"
      [] ctor = "float*" -> "af"
      [] ctor = "double*" -> "ad"
      [] ctor = "char**" -> "astr"

PropvalFrame == UNCHANGED <<sock, params, flags, buffer, fds, snd, newconn,
                            trace, outstanding, overlapped>>

\* TaggedPropval(tag, val[, len][, copy]): the type is the tag's; a type the
\* constructor does not accept throws std::invalid_argument, otherwise the
\* value is stored in the constructor's member.
TaggedPropval_typed(t) ==
    /\ call[t].pc = "idle"
    /\ \E ctor \in Constructors, tag \in Tags :
         \E val \in Payloads(Written(ctor)) :
            LET c == [IdleCall EXCEPT !.fn = "TaggedPropval", !.args.id = tag,
                                          !.args.container = ctor]
            IN  call' = [call EXCEPT ![t] =
                    IF ~IsType(tagType(tag), Accepted(ctor))
                    THEN Propagated(c, [kind |-> "invalid_argument", code |-> 0])
                    ELSE [c EXCEPT !.pc = "constructed",
                                   !.loc.pv = [value |-> val, tag |-> tag,
                                               type |-> tagType(tag),
                                               member |-> Written(ctor)]]]
    /\ PropvalFrame

\* TaggedPropval() followed by assignments to the public members tag, type and
\* value: the way a value whose tag has the type UNSPECIFIED gets its type.
TaggedPropval_default(t) ==
    /\ call[t].pc = "idle"
    /\ \E id \in PropIds, name \in TypeNames \ {"UNSPECIFIED"} :
         \E val \in (IF Member(PropvalType(name)) = "none" THEN {0}
                     ELSE Payloads(Member(PropvalType(name)))) :
            call' = [call EXCEPT ![t] =
                        [IdleCall EXCEPT !.fn = "TaggedPropval",
                                         !.pc = "constructed",
                                         !.loc.pv = [value |-> val,
                                                     tag |-> id * 65536 + PropvalType("UNSPECIFIED"),
                                                     type |-> PropvalType(name),
                                                     member |-> Member(PropvalType(name))]]]
    /\ PropvalFrame

\* buff << pv into a buffer that other data follows: a type outside the switch
\* throws SerializationError.
TaggedPropval_push(t) ==
    /\ call[t].pc = "constructed"
    /\ \E trailing \in Trailing :
         call' = [call EXCEPT ![t] =
                    IF Member(call[t].loc.pv.type) = "none"
                    THEN Propagated(call[t], [kind |-> "SerializationError", code |-> 0])
                    ELSE [call[t] EXCEPT !.pc = "serialized",
                                         !.loc.trailing = trailing,
                                         !.loc.buff = Serialize_push(call[t].loc.pv) \o trailing]]
    /\ PropvalFrame

\* TaggedPropval(IOBuffer&): the tag, the type, then the value of the member
\* the type selects; a type outside the switch throws SerializationError.
TaggedPropval_pop(t) ==
    /\ call[t].pc = "serialized"
    /\ LET head == PopTag(call[t].loc.buff)
           read == PopValue(Member(head.type), head.rest)
       IN  call' = [call EXCEPT ![t] =
                IF Member(head.type) = "none"
                THEN Propagated(call[t], [kind |-> "SerializationError", code |-> 0])
                ELSE [call[t] EXCEPT !.pc = "done",
                                     !.out = [kind |-> "ok", code |-> 0, value |-> 0],
                                     !.loc.buff = read.rest,
                                     !.loc.popped = [value |-> read.value,
                                                     tag |-> head.tag,
                                                     type |-> head.type,
                                                     member |-> Member(head.type)]]]
    /\ PropvalFrame

\* ------------------------------------------------ TaggedPropval storage

\* PropvalType::isArray: the multi-value types and BINARY (count() treats
\* BINARY as an array type).
isArray(type) == type >= 4096 \/ type = PropvalType("BINARY")

\* The heap: buffers that were never allocated, are live, or were released;
\* a borrowed buffer belongs to the caller. A buffer holds bytes or, for the
\* arrays of strings and binaries, the ids of the element buffers.
NoBuffer == [state |-> "unused", content |-> <<>>, borrowed |-> FALSE]
EmptyHeap == [b \in 1..MaxBuffers |-> NoBuffer]
Unused(h) == {b \in 1..MaxBuffers : h[b].state = "unused"}
Lowest(S) == CHOOSE i \in S : \A j \in S : i <= j

\* new[] for each of the contents in turn: the heap and the ids allocated.
RECURSIVE AllocAll(_, _, _)
AllocAll(h, contents, borrowed) ==
    IF contents = <<>> THEN [heap |-> h, ids |-> <<>>]
    ELSE LET b == Lowest(Unused(h))
             r == AllocAll([h EXCEPT ![b] = [state |-> "live", content |-> Head(contents),
                                             borrowed |-> borrowed]],
                           Tail(contents), borrowed)
         IN  [heap |-> r.heap, ids |-> <<b>> \o r.ids]

\* delete[] of buffer b.
Release(h, b) ==
    [h EXCEPT ![b].state = IF h[b].borrowed THEN "released borrowed"
                           ELSE IF @ = "live" THEN "freed" ELSE "freed twice"]
RECURSIVE ReleaseAll(_, _)
ReleaseAll(h, ids) ==
    IF ids = <<>> THEN h ELSE ReleaseAll(Release(h, Head(ids)), Tail(ids))

\* The objects of the model. value is the union: the number of a scalar, or
\* value.data.first, the id of a buffer (0 is nullptr).
Objects == {"a", "b"}
NoObject == [value |-> 0, tag |-> 0, type |-> 0, owned |-> TRUE, alive |-> FALSE]
StorageTypes == {"STRING", "LONG", "BINARY", "STRING_ARRAY", "BINARY_ARRAY"}
BufferContents == {<<>>, <<7>>}

\* TaggedPropval::free
TaggedPropval_free(h, pv) ==
    IF ~pv.owned \/ pv.value = 0 THEN h
    ELSE LET m == Member(pv.type)
             h1 == IF m \in {"astr", "adata"}
                   THEN ReleaseAll(h, h[pv.value].content) ELSE h
         IN  IF m = "str" THEN Release(h1, pv.value)
             ELSE IF isArray(pv.type) THEN Release(h1, pv.value)
             ELSE h1

\* TaggedPropval::copyValue: the heap and the value of the copy. The copy of a
\* BINARY_ARRAY reads the lengths of its elements from the uninitialized
\* buffer it has just allocated: each element gets some length and content.
TaggedPropval_copyValue(h, tp) ==
    LET m == Member(tp.type)
    IN  IF tp.value = 0 \/ ~tp.owned THEN {[value |-> tp.value, heap |-> h]}
        ELSE IF m = "str" THEN
            LET r == AllocAll(h, <<h[tp.value].content>>, FALSE)
            IN  {[value |-> r.ids[1], heap |-> r.heap]}
        ELSE IF m = "astr" THEN
            LET outer == AllocAll(h, <<h[tp.value].content>>, FALSE)
                elems == AllocAll(outer.heap,
                                  [i \in DOMAIN h[tp.value].content |->
                                      h[h[tp.value].content[i]].content], FALSE)
            IN  {[value |-> outer.ids[1],
                  heap |-> [elems.heap EXCEPT ![outer.ids[1]].content = elems.ids]]}
        ELSE IF m = "adata" THEN
            {LET outer == AllocAll(h, <<h[tp.value].content>>, FALSE)
                 elems == AllocAll(outer.heap, contents, FALSE)
             IN  [value |-> outer.ids[1],
                  heap |-> [elems.heap EXCEPT ![outer.ids[1]].content = elems.ids]] :
             contents \in [DOMAIN h[tp.value].content -> BufferContents]}
        ELSE IF isArray(tp.type) THEN
            LET r == AllocAll(h, <<h[tp.value].content>>, FALSE)
            IN  {[value |-> r.ids[1], heap |-> r.heap]}
        ELSE {[value |-> tp.value, heap |-> h]}

\* The buffers a copy of tp allocates at most.
CopyNeeds(h, tp) ==
    IF tp.value = 0 \/ Member(tp.type) \notin {"data", "str", "astr", "adata"} THEN 0
    ELSE IF Member(tp.type) \in {"astr", "adata"} THEN 1 + Len(h[tp.value].content)
    ELSE 1

Heap(t) == IF call[t].loc.heap = <<>> THEN EmptyHeap ELSE call[t].loc.heap
Objs(t) == IF call[t].loc.objs = <<>> THEN [o \in Objects |-> NoObject]
           ELSE call[t].loc.objs

\* The program goes on with the objects and the heap as given, op being the
\* member function that ran.
Storage(t, h, objs, op) ==
    /\ call[t].fn \in {"idle", "TaggedPropval storage"}
    /\ call' = [call EXCEPT ![t].fn = "TaggedPropval storage",
                            ![t].loc.heap = h, ![t].loc.objs = objs,
                            ![t].loc.op = op]
    /\ PropvalFrame

PropvalOf(name, value, owned) ==
    [value |-> value, tag |-> 12289 * 65536 + PropvalType(name),
     type |-> PropvalType(name), owned |-> owned, alive |-> TRUE]

\* A typed constructor (copy or not) on the caller's data, or, for copy = TRUE,
\* the deserializing constructor; a BINARY_ARRAY is only ever deserialized.
TaggedPropval_construct(t) ==
    \E o \in Objects, name \in StorageTypes, copy \in BOOLEAN,
       contents \in SeqsUpTo(BufferContents, MaxElems), v \in {0, 5} :
        LET h == Heap(t)
            m == Member(PropvalType(name))
            elems == AllocAll(h, contents, ~copy)
            array == AllocAll(elems.heap, <<elems.ids>>, ~copy)
            single == AllocAll(h, contents, ~copy)
            made(heap, value) ==
                Storage(t, heap, [Objs(t) EXCEPT ![o] = PropvalOf(name, value, copy)],
                        <<"construct", o, o>>)
        IN  /\ ~Objs(t)[o].alive
            /\ Cardinality(Unused(h)) >= 1 + Len(contents)
            /\ CASE m = "u32" -> copy /\ contents = <<>> /\ made(h, v)
                 [] m \in {"data", "str"} ->
                        v = 0 /\ Len(contents) = 1 /\ made(single.heap, single.ids[1])
                 [] OTHER ->
                        v = 0 /\ (m = "adata" => copy) /\ made(array.heap, array.ids[1])

\* TaggedPropval(const TaggedPropval&)
TaggedPropval_copy(t) ==
    \E dst \in Objects, src \in Objects :
        /\ ~Objs(t)[dst].alive /\ Objs(t)[src].alive
        /\ Cardinality(Unused(Heap(t))) >= CopyNeeds(Heap(t), Objs(t)[src])
        /\ \E r \in TaggedPropval_copyValue(Heap(t), Objs(t)[src]) :
              Storage(t, r.heap,
                      [Objs(t) EXCEPT ![dst] = [Objs(t)[src] EXCEPT !.value = r.value]],
                      <<"copy", dst, src>>)

\* operator=(const TaggedPropval&), on another object
TaggedPropval_copy_assign(t) ==
    \E dst \in Objects : \E src \in Objects \ {dst} :
        /\ Objs(t)[dst].alive /\ Objs(t)[src].alive
        /\ Cardinality(Unused(Heap(t))) >= CopyNeeds(Heap(t), Objs(t)[src])
        /\ \E r \in TaggedPropval_copyValue(TaggedPropval_free(Heap(t), Objs(t)[dst]),
                                            Objs(t)[src]) :
              Storage(t, r.heap,
                      [Objs(t) EXCEPT ![dst] = [Objs(t)[src] EXCEPT !.value = r.value]],
                      <<"copy", dst, src>>)

\* TaggedPropval(TaggedPropval&&): the value is taken, tp.value.zero()
TaggedPropval_move(t) ==
    \E dst \in Objects, src \in Objects :
        /\ ~Objs(t)[dst].alive /\ Objs(t)[src].alive
        /\ Storage(t, Heap(t),
                   [Objs(t) EXCEPT ![dst] = Objs(t)[src], ![src].value = 0],
                   <<"move", dst, src>>)

\* operator=(TaggedPropval&&), on another object
TaggedPropval_move_assign(t) ==
    \E dst \in Objects : \E src \in Objects \ {dst} :
        /\ Objs(t)[dst].alive /\ Objs(t)[src].alive
        /\ Storage(t, TaggedPropval_free(Heap(t), Objs(t)[dst]),
                   [Objs(t) EXCEPT ![dst] = Objs(t)[src], ![src].value = 0],
                   <<"move", dst, src>>)

\* ~TaggedPropval()
TaggedPropval_destroy(t) ==
    \E o \in Objects :
        /\ Objs(t)[o].alive
        /\ Storage(t, TaggedPropval_free(Heap(t), Objs(t)[o]),
                   [Objs(t) EXCEPT ![o] = NoObject], <<"destroy", o, o>>)

\* ------------------------------------------------------- specification

\* ExmdbClient() leaves the client unconnected (isPrivate is not initialized);
\* ExmdbClient(host, port, prefix, isPrivate, flags) returns only when connect
\* succeeded.
Init ==
    /\ \/ /\ sock = NoSock
          /\ flags = 0
          /\ params \in {[prefix |-> "", isPrivate |-> b] : b \in BOOLEAN}
          /\ fds = [i \in 1..MaxFds |-> FreeFd]
          /\ buffer = MainCaller
       \/ /\ sock = 1
          /\ flags \in FlagValues
          /\ params \in ParamSet
          /\ fds = [i \in 1..MaxFds |->
                      IF i = 1
                      THEN [NewFd EXCEPT !.connected = TRUE, !.hs = "ok",
                              !.first = ConnectRequest(params.prefix, params.isPrivate)]
                      ELSE FreeFd]
          /\ buffer = MainCaller
    /\ call = [t \in Callers |-> IdleCall]
    /\ snd = [t \in Callers |-> IdleSend]
    /\ newconn = [t \in Callers |-> NoSock]
    /\ trace = [t \in Callers |-> <<>>]
    /\ outstanding = 0
    /\ overlapped = FALSE

\* The steps of a send, whoever started it.
SendStep(t) ==
    \/ Connection_send_xmit(t)
    \/ Connection_send_header(t)
    \/ Connection_send_body(t)
    \/ ExmdbClient_send_catch(t)
    \/ Finish(t)

\* The steps of reconnect().
ReconnectStep(t) ==
    \/ ExmdbClient_reconnect_connect(t)
    \/ ExmdbClient_reconnect_adopt(t)
    \/ ExmdbClient_reconnect_fail(t)

ClientOp(t) ==
    \/ ExmdbClient_connect(t)
    \/ ExmdbClient_connect_return(t)
    \/ ExmdbClient_reconnect(t)
    \/ ExmdbClient_destroy(t)
    \/ unloadStore(t)
    \/ unloadStore_return(t)

\* One caller: the single-threaded use the library is written for.
Next == SendStep(MainCaller) \/ ReconnectStep(MainCaller) \/ ClientOp(MainCaller)

Spec == Init /\ [][Next]_vars

\* The single-threaded client whose receive loop keeps running: recv returns
\* (with data, with 0 or with an error) whenever the loop calls it.
SpecReceive == Init /\ [][Next]_vars /\ WF_vars(Connection_send_body(MainCaller))

\* Several callers on one constructed client, as the Python bindings allow
\* (every method releases the interpreter lock and the client takes none).
InitShared == Init /\ sock # NoSock /\ flags = 0

NextShared ==
    \E t \in Callers :
        \/ SendStep(t)
        \/ unloadStore(t)
        \/ unloadStore_return(t)

SpecShared == InitShared /\ [][NextShared]_vars

\* The table queries of ExmdbQueries by one caller, on a client constructed
\* with the default flags (no AUTO_RECONNECT: reconnect() is not part of a
\* query, and Spec covers it).
InitQueries == Init /\ sock # NoSock /\ flags = 0

TableQuery(t) ==
    \/ findFolder(t)
    \/ findFolder_query(t)
    \/ findFolder_unload(t)
    \/ findFolder_return(t)
    \/ listFolders(t)
    \/ listFolders_query(t)
    \/ listFolders_unload(t)
    \/ listFolders_return(t)
    \/ getFolderMemberList(t)
    \/ getFolderMemberList_query(t)
    \/ getFolderMemberList_unload(t)
    \/ getFolderMemberList_return(t)

NextQueries == SendStep(MainCaller) \/ TableQuery(MainCaller)

SpecQueries == InitQueries /\ [][NextQueries]_vars

\* The editing of folder permissions on a constructed client, by one caller.
InitPerm == Init /\ sock # NoSock /\ flags = 0 /\ params.isPrivate

PermissionEdit(t) ==
    \/ setFolderMember_username(t)
    \/ setFolderMember_username_found(t)
    \/ setFolderMember_ID(t)
    \/ setFolderMember_ID_found(t)
    \/ setFolderMember_return(t)
    \/ getFolderMemberList_query(t)
    \/ getFolderMemberList_unload(t)

NextPerm == SendStep(MainCaller) \/ PermissionEdit(MainCaller)

SpecPerm == InitPerm /\ [][NextPerm]_vars

\* setFolderMembers on a constructed client, by one caller.
InitMembers == Init /\ sock # NoSock /\ flags = 0 /\ params.isPrivate

NextMembers ==
    \/ SendStep(MainCaller)
    \/ setFolderMembers(MainCaller)
    \/ getFolderMemberList_query(MainCaller)
    \/ getFolderMemberList_unload(MainCaller)
    \/ setFolderMembers_diff(MainCaller)
    \/ setFolderMembers_return(MainCaller)

SpecMembers == InitMembers /\ [][NextMembers]_vars

\* The folder operations of ExmdbQueries on a constructed client, by one caller.
InitFolders == Init /\ sock # NoSock /\ flags = 0

FolderOp(t) ==
    \/ createFolder(t)
    \/ createFolder_create(t)
    \/ createFolder_return(t)
    \/ deleteFolder(t)
    \/ deleteFolder_delete(t)
    \/ deleteFolder_return(t)

NextFolders == SendStep(MainCaller) \/ FolderOp(MainCaller)

SpecFolders == InitFolders /\ [][NextFolders]_vars

\* The device operations of ExmdbQueries on a constructed client, by one caller.
InitDevices == Init /\ sock # NoSock /\ flags = 0 /\ params.isPrivate

DeviceOp(t) ==
    \/ removeDevice(t)
    \/ deviceFolder(t)
    \/ removeDevice_empty(t)
    \/ removeDevice_delete(t)
    \/ removeDevice_return(t)
    \/ resyncDevice(t)
    \/ resyncDevice_load(t)
    \/ resyncDevice_query(t)
    \/ resyncDevice_unload(t)
    \/ resyncDevice_delete(t)
    \/ resyncDevice_return(t)

NextDevices == SendStep(MainCaller) \/ DeviceOp(MainCaller)

SpecDevices == InitDevices /\ [][NextDevices]_vars

\* getSyncData on a constructed client, by one caller.
InitSync == Init /\ sock # NoSock /\ flags = 0 /\ params.isPrivate

NextSync ==
    \/ SendStep(MainCaller)
    \/ getSyncData(MainCaller)
    \/ getSyncData_load(MainCaller)
    \/ getSyncData_query(MainCaller)
    \/ getSyncData_unload(MainCaller)
    \/ getSyncData_subfolders(MainCaller)
    \/ getSyncData_content_query(MainCaller)
    \/ getSyncData_content_unload(MainCaller)
    \/ getSyncData_message(MainCaller)
    \/ getSyncData_accumulate(MainCaller)

SpecSync == InitSync /\ [][NextSync]_vars

\* TaggedPropval values built, serialized and read back; no connection.
InitPropval == Init /\ sock = NoSock /\ flags = 0 /\ ~params.isPrivate

NextPropval ==
    \/ TaggedPropval_typed(MainCaller)
    \/ TaggedPropval_default(MainCaller)
    \/ TaggedPropval_push(MainCaller)
    \/ TaggedPropval_pop(MainCaller)
    \/ Finish(MainCaller)

SpecPropval == InitPropval /\ [][NextPropval]_vars

\* if(size < 17 || size > 24) throw SerializationError, in writeXID and in
\* Serialize<SizedXID>::push.
ValidXIDSize_any(size) == TRUE
ValidXIDSize(size) == size >= 17 /\ size <= 24

XIDSizes == {0, 16, 17, 20, 24, 25, 255}

\* buff.push(sXID) (whole = TRUE) or sXID.writeXID(buff) (whole = FALSE) on a
\* buffer that already holds some bytes: the size is checked before the first
\* byte is written.
WriteSizedXID(t, fn, whole) ==
    /\ call[t].pc = "idle"
    /\ \E size \in XIDSizes, domainId \in DomainIds, localId \in ChangeNums,
          held \in Trailing :
         LET xid == SizedXID(size, GUID_fromDomainId(domainId), localId)
             c == [IdleCall EXCEPT !.fn = fn, !.loc.xid = xid,
                                   !.loc.before = held, !.loc.buff = held]
         IN  call' = [call EXCEPT ![t] =
                        IF ~ValidXIDSize(xid.size)
                        THEN Propagated(c, [kind |-> "SerializationError", code |-> 0])
                        ELSE [c EXCEPT !.pc = "done",
                                       !.out = [kind |-> "ok", code |-> 0, value |-> 0],
                                       !.loc.buff = held \o (IF whole THEN PushSizedXID(xid)
                                                             ELSE writeXID(xid))]]
    /\ PropvalFrame

Serialize_SizedXID_push(t) == WriteSizedXID(t, "Serialize<SizedXID>::push", TRUE)
SizedXID_writeXID(t) == WriteSizedXID(t, "SizedXID::writeXID", FALSE)

\* Change numbers converted to GC buffers and back, XIDs written to a buffer;
\* no connection.
NextUtil ==
    \/ util_valueToGc(MainCaller)
    \/ util_gcToValue(MainCaller)
    \/ Serialize_SizedXID_push(MainCaller)
    \/ SizedXID_writeXID(MainCaller)
    \/ Finish(MainCaller)

SpecUtil == InitPropval /\ [][NextUtil]_vars

\* -------------------------------------------------------- Restriction::serialize

\* What a push appends to the buffer, and whether it threw SerializationError
\* (the bytes appended before the throw stay in the buffer).
Pushed(bytes) == [bytes |-> bytes, thrown |-> FALSE]

\* buff.push(a, b): b is pushed after a, unless a threw.
Then(a, b) ==
    IF a.thrown THEN a ELSE [bytes |-> a.bytes \o b.bytes, thrown |-> b.thrown]

\* buff.push(tp) of a TaggedPropval: a type outside the switch throws after
\* the tag (and the type of an UNSPECIFIED tag) has been written.
PushPropval(pv) ==
    IF Member(pv.type) # "none" THEN Pushed(Serialize_push(pv))
    ELSE [bytes |-> PushInt(pv.tag, 4)
                    \o (IF tagType(pv.tag) = PropvalType("UNSPECIFIED")
                        THEN PushInt(pv.type, 2) ELSE <<>>),
          thrown |-> TRUE]

\* for(const TaggedPropval& tp : r.propvals) buff.push(tp)
RECURSIVE PushPropvals(_)
PushPropvals(propvals) ==
    IF propvals = <<>> THEN Pushed(<<>>)
    ELSE Then(PushPropval(Head(propvals)), PushPropvals(Tail(propvals)))

RECURSIVE Restriction_serialize(_)
RECURSIVE PushEach_reversed(_)
RECURSIVE PushEach(_)

\* The sub-restrictions pushed last to first.
PushEach_reversed(ress) ==
    IF ress = <<>> THEN Pushed(<<>>)
    ELSE Then(PushEach_reversed(Tail(ress)), Restriction_serialize(Head(ress)))

\* for(const Restriction& r : *ress) buff.push(r)
PushEach(ress) ==
    IF ress = <<>> THEN Pushed(<<>>)
    ELSE Then(Restriction_serialize(Head(ress)), PushEach(Tail(ress)))

\* Restriction::serialize(buff); ress->size() of a vector held in memory is
\* below the limit of a uint32_t.
Restriction_serialize(r) ==
    IF r.variant = Type("iXNULL") THEN Pushed(<<>>)
    ELSE Then(Pushed(PushInt(r.variant, 1)),
         CASE r.variant \in {Type("AND"), Type("OR")} ->
                Then(Pushed(PushInt(Len(r.elements), 4)), PushEach(r.elements))
           [] r.variant = Type("NOT") ->
                Restriction_serialize(r.res[1])
           [] r.variant = Type("CONTENT") ->
                Then(Pushed(PushInt(r.fuzzyLevel, 4) \o PushInt(r.proptag, 4)),
                     PushPropval(r.propval))
           [] r.variant = Type("PROPERTY") ->
                Then(Pushed(PushInt(r.op, 1) \o PushInt(r.proptag, 4)),
                     PushPropval(r.propval))
           [] r.variant = Type("PROPCOMP") ->
                Pushed(PushInt(r.op, 1) \o PushInt(r.proptag1, 4) \o PushInt(r.proptag2, 4))
           [] r.variant = Type("BITMASK") ->
                Pushed(PushInt(IF r.all THEN 0 ELSE 1, 1) \o PushInt(r.proptag, 4)
                       \o PushInt(r.mask, 4))
           [] r.variant = Type("SIZE") ->
                Pushed(PushInt(r.op, 1) \o PushInt(r.proptag, 4) \o PushInt(r.size, 4))
           [] r.variant = Type("EXIST") ->
                Pushed(PushInt(r.proptag, 4))
           [] r.variant = Type("SUBRES") ->
                Then(Pushed(PushInt(r.subobject, 4)), Restriction_serialize(r.res[1]))
           [] r.variant = Type("COMMENT") ->
                IF Len(r.propvals) = 0 \/ Len(r.propvals) > 255
                THEN [bytes |-> <<>>, thrown |-> TRUE]
                ELSE Then(Pushed(PushInt(Len(r.propvals), 1)),
                     Then(PushPropvals(r.propvals),
                          IF r.res # <<>>
                          THEN Then(Pushed(PushInt(1, 1)), Restriction_serialize(r.res[1]))
                          ELSE Pushed(PushInt(0, 1))))
           [] r.variant = Type("COUNT") ->
                Then(Pushed(PushInt(r.count, 4)), Restriction_serialize(r.subres[1]))
           [] OTHER -> [bytes |-> <<>>, thrown |-> TRUE])

\* The propvals and property tags of the restrictions of the model: a WSTRING
\* and a STRING property, and the proptag arguments 0 and a third tag.
RestrictionPropvals ==
    {[value |-> <<97>>, tag |-> 12289 * 65536 + PropvalType("WSTRING"),
      type |-> PropvalType("WSTRING"), member |-> "str"],
     [value |-> <<98, 99>>, tag |-> 3613 * 65536 + PropvalType("STRING"),
      type |-> PropvalType("STRING"), member |-> "str"]}
GivenTags == {0, 55 * 65536 + PropvalType("WSTRING")}

\* A call of a factory function: its name and arguments (number is the
\* fuzzyLevel, op, all, size, subobject or count argument).
FactoryCall(f, n, pt, tvs, ress) ==
    [proptag |-> pt, propvals |-> tvs, elements |-> ress, factory |-> f,
     number |-> n]

\* The restriction a factory call returns.
Construct(c) ==
    CASE c.factory = "AND" -> Restriction_AND(c.elements)
      [] c.factory = "OR" -> Restriction_OR(c.elements)
      [] c.factory = "NOT" -> Restriction_NOT(c.elements[1])
      [] c.factory = "CONTENT" -> Restriction_CONTENT(c.number, c.proptag, c.propvals[1])
      [] c.factory = "PROPERTY" -> Restriction_PROPERTY(c.number, c.proptag, c.propvals[1])
      [] c.factory = "PROPCOMP" -> Restriction_PROPCOMP(c.number, c.proptag, c.proptag)
      [] c.factory = "BITMASK" -> Restriction_BITMASK(c.number = 1, c.proptag, 255)
      [] c.factory = "SIZE" -> Restriction_SIZE(c.number, c.proptag, 1024)
      [] c.factory = "EXIST" -> Restriction_EXIST(c.proptag)
      [] c.factory = "SUBOBJECT" -> Restriction_SUBOBJECT(c.number, c.elements[1])
      [] c.factory = "COMMENT" -> Restriction_COMMENT(c.propvals, c.elements[1])
      [] c.factory = "COUNT" -> Restriction_COUNT(c.number, c.elements[1])
      [] OTHER -> Restriction_XNULL

\* The factory calls without a sub-restriction.
LeafCalls ==
    {FactoryCall("XNULL", 0, 0, <<>>, <<>>)}
    \cup {FactoryCall(f, n, pt, <<tp>>, <<>>) :
            f \in {"CONTENT", "PROPERTY"}, n \in {0, Op("EQ")}, pt \in GivenTags,
            tp \in RestrictionPropvals}
    \cup {FactoryCall(f, n, pt, <<>>, <<>>) :
            f \in {"PROPCOMP", "BITMASK", "SIZE", "EXIST"}, n \in {0, 1},
            pt \in GivenTags \ {0}}

\* The sub-restrictions handed to a factory: leaves, and restrictions that
\* hold sub-restrictions themselves.
Children ==
    LET leaves == {Construct(c) : c \in
                      {d \in LeafCalls : /\ d.number = 0
                                         /\ d.factory \in {"CONTENT", "EXIST", "XNULL"}
                                         /\ \A i \in DOMAIN d.propvals :
                                               d.propvals[i].type = PropvalType("WSTRING")}}
    IN  leaves
        \cup {Restriction_NOT(Restriction_EXIST(pt)) : pt \in GivenTags \ {0}}
        \cup {Restriction_AND(<<r, Restriction_EXIST(pt)>>) :
                 r \in leaves \ {Restriction_XNULL}, pt \in GivenTags \ {0}}

\* The longest AND/OR chain and COMMENT propval list of the model (one list
\* beyond the 255 propvals a COMMENT may hold is added to them).
MaxChain == 2

Calls ==
    LeafCalls
    \cup {FactoryCall(f, 0, 0, <<>>, ress) :
            f \in {"AND", "OR"}, ress \in SeqsUpTo(Children, MaxChain)}
    \cup {FactoryCall(f, n, 0, <<>>, <<r>>) :
            f \in {"NOT", "COUNT", "SUBOBJECT"}, n \in {7}, r \in Children}
    \cup {FactoryCall("COMMENT", 0, 0, tvs, <<r>>) :
            tvs \in SeqsUpTo(RestrictionPropvals, MaxChain)
                    \cup {[i \in 1 .. 256 |-> tp] : tp \in RestrictionPropvals},
            r \in Children}

\* A caller builds a restriction with one of the factory functions ...
Restriction_create(t) ==
    /\ call[t].pc = "idle"
    /\ \E c \in Calls :
         call' = [call EXCEPT ![t] =
                    [IdleCall EXCEPT !.fn = "Restriction::serialize", !.pc = "created",
                                     !.loc.before = <<c>>, !.loc.x = <<Construct(c)>>]]
    /\ PropvalFrame

\* ... and pushes it to an empty buffer: Serialize<Restriction>::push, which
\* is res.serialize(buff).
Serialize_Restriction_push(t) ==
    /\ call[t].pc = "created"
    /\ LET pushed == Restriction_serialize(call[t].loc.x[1])
           c == [call[t] EXCEPT !.loc.buff = pushed.bytes]
       IN  call' = [call EXCEPT ![t] =
                      IF pushed.thrown
                      THEN Propagated(c, [kind |-> "SerializationError", code |-> 0])
                      ELSE [c EXCEPT !.pc = "done",
                                     !.out = [kind |-> "ok", code |-> 0, value |-> 0]]]
    /\ PropvalFrame

\* Restrictions built and serialized, and findFolder, which sends one.
NextRestriction ==
    \/ Restriction_create(MainCaller)
    \/ Serialize_Restriction_push(MainCaller)
    \/ SendStep(MainCaller)
    \/ findFolder(MainCaller)
    \/ findFolder_query(MainCaller)
    \/ findFolder_unload(MainCaller)
    \/ findFolder_return(MainCaller)

SpecRestriction == InitQueries /\ [][NextRestriction]_vars

\* TaggedPropval objects constructed, copied, moved, assigned and destroyed;
\* no connection.
NextStorage ==
    \/ TaggedPropval_construct(MainCaller)
    \/ TaggedPropval_copy(MainCaller)
    \/ TaggedPropval_copy_assign(MainCaller)
    \/ TaggedPropval_move(MainCaller)
    \/ TaggedPropval_move_assign(MainCaller)
    \/ TaggedPropval_destroy(MainCaller)

SpecStorage == InitPropval /\ [][NextStorage]_vars

\* ============================================================ properties

\* The operations that load, query and unload one table.
TableOps == {"findFolder", "listFolders", "getFolderMemberList"}

\* The Load...Table request an operation sends.
LoadCallOf(fn) ==
    IF fn = "getFolderMemberList" THEN "LoadPermissionTableRequest"
    ELSE "LoadHierarchyTableRequest"

\* The positions of the trace of t that unload the handle the server issued.
UnloadsOf(t) ==
    {i \in DOMAIN trace[t] : trace[t][i] = UnloadTableRequest(call[t].loc.issued)}

\* The operation of t is over.
Ended(t) == call[t].pc = "done"

\* C1: in listFolders, findFolder and getFolderMemberList, once the
\* Load...Table request has succeeded, an UnloadTable for the returned
\* tableId has been sent when the operation ends, also when it ends because
\* the QueryTable failed.
C1_UnloadOnEveryPath ==
    \A t \in Callers :
        (Ended(t) /\ call[t].fn \in TableOps /\ call[t].loc.issued # 0)
            => UnloadsOf(t) # {}

\* C2: when listFolders, findFolder or getFolderMemberList returns normally,
\* the requests sent are exactly Load...Table, QueryTable, UnloadTable in that
\* order, QueryTable and UnloadTable carry the tableId of the Load response,
\* and that handle is unloaded exactly once.
C2_SuccessSequence ==
    \A t \in Callers :
        (Ended(t) /\ call[t].fn \in TableOps /\ call[t].out.kind = "ok") =>
            /\ Len(trace[t]) = 3
            /\ trace[t][1].call = LoadCallOf(call[t].fn)
            /\ trace[t][2].call = "QueryTableRequest"
            /\ trace[t][2].tableId = call[t].loc.issued
            /\ trace[t][3] = UnloadTableRequest(call[t].loc.issued)
            /\ call[t].loc.issued \in 1..MaxTableId
            /\ Cardinality(UnloadsOf(t)) = 1

\* A listFolders returned normally on a handle and row count other than the
\* smallest the server issues.
C2_Witness ==
    \E t \in Callers :
        /\ Ended(t) /\ call[t].fn = "listFolders" /\ call[t].out.kind = "ok"
        /\ call[t].loc.issued > 1
        /\ call[t].loc.reported # call[t].loc.issued

\* The AUTO_RECONNECT bit of the client's flags is set.
AutoReconnect == BitAnd(flags, AUTO_RECONNECT) # 0

\* C3: a send makes at most one reconnect attempt, and makes one exactly when
\* the response status is DISPATCH_ERROR (8) and AUTO_RECONNECT is set; the
\* caller then gets the original protocol error whether or not the reconnect
\* succeeded, and after the failed request nothing but the Connect of the
\* reconnect is transmitted; with the flag clear or any other status no
\* reconnect is attempted.
C3_ReconnectOnce ==
    \A t \in Callers :
        /\ snd[t].reconnects <= 1
        /\ snd[t].reconnects = 1 =>
              /\ snd[t].exc = ExmdbProtocolError(DISPATCH_ERROR)
              /\ AutoReconnect
              /\ Len(trace[t]) <= snd[t].mark + 1
              /\ \A i \in (snd[t].mark + 1)..Len(trace[t]) :
                    trace[t][i] = ConnectRequest(params.prefix, params.isPrivate)
        /\ (Ended(t) /\ snd[t].exc.kind = "ExmdbProtocolError") =>
              /\ call[t].out = [kind |-> "ExmdbProtocolError",
                                code |-> snd[t].exc.code, value |-> 0]
              /\ snd[t].reconnects =
                    IF snd[t].exc.code = DISPATCH_ERROR /\ AutoReconnect THEN 1 ELSE 0

\* An unloadStore answered with DISPATCH_ERROR ended with that error after a
\* reconnect that succeeded.
C3_Witness ==
    \E t \in Callers :
        /\ Ended(t) /\ call[t].fn = "unloadStore"
        /\ snd[t].reconnects = 1 /\ snd[t].rcret = "true"
        /\ call[t].out = [kind |-> "ExmdbProtocolError", code |-> DISPATCH_ERROR,
                          value |-> 0]
        /\ Len(trace[t]) = 2

\* The reconnect() of caller t is between its start and its return.
Reconnecting(t) ==
    \/ snd[t].pc \in {"rc_failed", "rc_ok", "reconnect"}
    \/ snd[t].on = "newconn" /\ snd[t].pc \in {"xmit", "header", "body"}

\* Socket s is untouched by the step.
SocketKept(s) == sock' = s /\ (s # NoSock => fds'[s] = fds[s])

\* C4: no step of reconnect() but the adoption closes or replaces the
\* client's socket; a reconnect() that failed at any step returns false with
\* the socket as it was; reconnect() returns true only from the adoption,
\* which happens once Connect was answered with SUCCESS on the new socket,
\* closes the old socket and makes the new one the client's connection.
C4_ReconnectFrame ==
    [][\A t \in Callers :
          /\ (Reconnecting(t) /\ snd[t].pc # "rc_ok") => SocketKept(sock)
          /\ snd[t].pc = "rc_failed" => snd'[t].rcret = "false"
          /\ snd[t].pc = "rc_ok" =>
                /\ snd'[t].rcret = "true"
                /\ newconn[t] # NoSock /\ fds[newconn[t]].hs = "ok"
                /\ sock' = newconn[t] /\ fds'[sock'] = fds[newconn[t]]
                /\ fds'[sock'].state = "open"
                /\ (sock # NoSock => fds'[sock].state = "free")
                /\ newconn'[t] = NoSock
          /\ (snd'[t].rcret = "true" /\ snd[t].rcret # "true") => snd[t].pc = "rc_ok"
      ]_vars

\* A reconnect() whose Connect was refused returned false and the client's
\* socket is the open, readied socket it had.
C4_Witness ==
    \E t \in Callers :
        /\ Ended(t) /\ call[t].fn = "reconnect" /\ snd[t].rcret = "false"
        /\ Len(trace[t]) = 1
        /\ sock # NoSock /\ fds[sock].state = "open" /\ fds[sock].hs = "ok"

\* C5: on the client's connection, a header whose status byte is not SUCCESS
\* makes send fail with a protocol error carrying that status, with no body
\* byte read and no typed response built; a send that returns has read a
\* full header with status SUCCESS and exactly `length` body bytes, from
\* which the response is built.
C5_StatusDecides ==
    \A t \in Callers :
        snd[t].on = "connection" =>
            /\ (snd[t].bytes >= 1 /\ snd[t].status # SUCCESS) =>
                  /\ snd[t].exc = ExmdbProtocolError(snd[t].status)
                  /\ snd[t].offset = 0
                  /\ snd[t].response = "none"
                  /\ snd[t].pc \in {"caught", "throw", "reconnect"}
                  /\ Ended(t) => call[t].out = [kind |-> "ExmdbProtocolError",
                                                code |-> snd[t].status, value |-> 0]
            /\ snd[t].pc = "ok" =>
                  /\ snd[t].bytes = HeaderSize /\ snd[t].status = SUCCESS
                  /\ snd[t].offset = snd[t].length
            /\ snd[t].response = "built" <=> snd[t].pc \in {"ok", "idle"} /\ snd[t].fd # NoSock

\* A call ended with the protocol error of a refusal whose header came short.
C5_Witness ==
    \E t \in Callers :
        /\ Ended(t) /\ snd[t].on = "connection"
        /\ snd[t].status = ACCESS_DENY /\ snd[t].bytes < HeaderSize
        /\ call[t].out.kind = "ExmdbProtocolError"

\* C6: the first request transmitted on every socket is the Connect with the
\* client's parameters, and no other request is transmitted on a socket before
\* its Connect was answered with SUCCESS.
C6_ConnectFirst ==
    \A fd \in 1..MaxFds :
        fds[fd].state = "open" =>
            /\ fds[fd].first # NoRequest => fds[fd].first.call = "ConnectRequest"
            /\ (fd = sock /\ fds[fd].first # NoRequest) =>
                  fds[fd].first = ConnectRequest(params.prefix, params.isPrivate)
            /\ ~fds[fd].early

\* C7: when a call has failed with a connection error, the client's
\* connection holds no open socket.
C7_ClosedAfterConnectionError ==
    \A t \in Callers :
        (Ended(t) /\ call[t].out.kind = "ConnectionError") =>
            (sock = NoSock \/ fds[sock].state # "open")

\* The sends that have transmitted and not yet returned or failed.
Receiving == {t \in Callers : snd[t].pc \in {"header", "body"}}

\* C8 as stated: whatever the interleaving of callers, at most one request is
\* outstanding and the buffer belongs to the send that is receiving.
C8_OneOutstanding ==
    /\ outstanding <= 1
    /\ \A t \in Receiving : buffer = t

\* C8 for callers that do not overlap: as long as no operation was started
\* while another was running, at most one request is outstanding, it is the
\* request of the one send that is receiving, and the buffer is that send's.
C8_OneOutstandingSequential ==
    ~overlapped =>
        /\ outstanding <= 1
        /\ outstanding = Cardinality(Receiving)
        /\ \A t \in Receiving : buffer = t /\ trace[t] # <<>>

\* The second caller receives a body after the first caller's operation, with
\* no overlap.
C8_Witness ==
    /\ ~overlapped
    /\ call["c1"].pc = "idle"
    /\ snd["c2"].pc = "body" /\ snd["c2"].offset > 0
    /\ outstanding = 1

\* C9: the QueryTable of listFolders carries rowOffset = offset and a row
\* limit that is the rowCount the server reported when offset and limit are
\* both 0, and the caller's limit in every other case.
C9_EffectiveLimit ==
    \A t \in Callers :
        (call[t].fn = "listFolders" /\ Len(trace[t]) >= 2
            /\ trace[t][2].call = "QueryTableRequest") =>
            /\ trace[t][2].rowOffset = call[t].args.offset
            /\ trace[t][2].rowCount =
                  IF call[t].args.offset = 0 /\ call[t].args.limit = 0
                  THEN call[t].loc.reported
                  ELSE call[t].args.limit

\* listFolders with an offset and no limit queried a table that has rows.
C9_Witness ==
    \E t \in Callers :
        /\ call[t].fn = "listFolders" /\ Len(trace[t]) >= 2
        /\ trace[t][2].call = "QueryTableRequest"
        /\ call[t].args.offset # 0 /\ call[t].args.limit = 0
        /\ call[t].loc.reported > 0

\* The setFolderMember overloads that look the target up.
SetMemberOps == {"setFolderMember_username", "setFolderMember_ID"}

\* The row of the member list that is the target of the call of t, 0 if none.
TargetOf(t) ==
    FirstIndex({i \in DOMAIN call[t].loc.entries :
                   IF call[t].fn = "setFolderMember_ID"
                   THEN call[t].loc.entries[i].id = call[t].args.id
                   ELSE call[t].loc.entries[i].mail = call[t].args.username})

OldRights(t) ==
    IF TargetOf(t) = 0 THEN 0 ELSE call[t].loc.entries[TargetOf(t)].rights

NewRights(t) ==
    IF call[t].args.remove THEN AndNot(OldRights(t), call[t].args.rights)
    ELSE BitOr(OldRights(t), call[t].args.rights)

IsUpdate(r) == r.call = "UpdateFolderPermissionRequest"

\* C10: a setFolderMember that returns (by id: for a target that exists)
\* returns new = remove ? old & ~rights : old | rights; it has sent no
\* UpdateFolderPermission when new = old, and otherwise exactly one, with one
\* row that is ADD_ROW if the target did not exist, MODIFY_ROW if it existed
\* and new # 0, REMOVE_ROW if new = 0.
C10_SetFolderMember ==
    \A t \in Callers :
        (Ended(t) /\ call[t].fn \in SetMemberOps /\ call[t].out.kind = "ok"
            /\ (call[t].fn = "setFolderMember_ID" => TargetOf(t) # 0)) =>
            LET updates == SelectSeq(trace[t], IsUpdate)
            IN  /\ call[t].out.value = NewRights(t)
                /\ NewRights(t) = OldRights(t) => updates = <<>>
                /\ NewRights(t) # OldRights(t) =>
                      /\ Len(updates) = 1
                      /\ Len(updates[1].rows) = 1
                      /\ updates[1].rows[1].flags =
                            IF NewRights(t) = 0 THEN REMOVE_ROW
                            ELSE IF TargetOf(t) = 0 THEN ADD_ROW
                            ELSE MODIFY_ROW

\* The row carries the property tag.
HasTag(row, tag) == \E k \in DOMAIN row.tags : row.tags[k] = tag

\* C11: no UpdateFolderPermission sent by permission editing carries a row
\* operation that names a special member, that is a row whose MEMBERID is 0 or
\* 0xFFFFFFFFFFFFFFFF, whatever member list the server returned and whatever
\* the rights mask.
C11_NoSpecialMemberRows ==
    \A t \in Callers :
        \A i \in DOMAIN trace[t] :
            IsUpdate(trace[t][i]) =>
                \A k \in DOMAIN trace[t][i].rows :
                    HasTag(trace[t][i].rows[k], "MEMBERID")
                        => ~special(trace[t][i].rows[k])

\* The rows of the UpdateFolderPermission a caller has sent, if any.
SentRows(t) ==
    LET updates == SelectSeq(trace[t], IsUpdate)
    IN  IF updates = <<>> THEN <<>> ELSE updates[1].rows

\* The server applying a row operation to the members of a folder: ADD_ROW
\* enters a member under an id no listed member has, MODIFY_ROW sets the rights of the
\* member named by MEMBERID, REMOVE_ROW deletes it.
ApplyRow(members, row) ==
    IF row.flags = ADD_ROW
    THEN members \cup {[id |-> Cardinality(ListedIds) + Cardinality(members),
                        rights |-> row.rights, mail |-> row.mail]}
    ELSE IF row.flags = MODIFY_ROW
    THEN {IF m.id = row.id THEN [m EXCEPT !.rights = row.rights] ELSE m : m \in members}
    ELSE {m \in members : m.id # row.id}

RECURSIVE ApplyRows(_, _)
ApplyRows(members, rows) ==
    IF rows = <<>> THEN members
    ELSE ApplyRows(ApplyRow(members, Head(rows)), Tail(rows))

\* A setFolderMembers call of t has returned.
MembersSet(t) ==
    /\ call[t].fn = "setFolderMembers"
    /\ Ended(t)
    /\ call[t].out.kind = "ok"

\* The members of the folder before and after the call of t.
MembersBefore(t) == {call[t].loc.entries[i] : i \in DOMAIN call[t].loc.entries}
MembersAfter(t) == ApplyRows(MembersBefore(t), SentRows(t))

\* Every username passed is a member whose rights include the mask.
GrantedToAll(t) ==
    \A u \in Requested(call[t].args.usernames) :
        \E m \in MembersAfter(t) :
            m.mail = u /\ BitAnd(m.rights, call[t].args.rights) = call[t].args.rights

\* Special members, and members whose rights stay as they were, get no row.
UnchangedUntouched(t) ==
    \A m \in MembersBefore(t) :
        LET new == IF m.mail \in Requested(call[t].args.usernames)
                   THEN BitOr(m.rights, call[t].args.rights)
                   ELSE AndNot(m.rights, call[t].args.rights)
        IN  (special(m) \/ new = m.rights) =>
                \A k \in DOMAIN SentRows(t) :
                    HasTag(SentRows(t)[k], "MEMBERID") => SentRows(t)[k].id # m.id

\* C12 (as stated): after setFolderMembers(F, U, R) every username of U is a
\* member with rights that include R; every non-special member not in U has
\* rights old & ~R and is gone if and only if that is 0; members whose rights
\* do not change get no row operation.
C12_RemovedIffZero ==
    \A t \in Callers :
        MembersSet(t) =>
            /\ GrantedToAll(t)
            /\ UnchangedUntouched(t)
            /\ \A m \in MembersBefore(t) :
                 (~special(m) /\ m.mail \notin Requested(call[t].args.usernames)) =>
                    LET new == AndNot(m.rights, call[t].args.rights)
                    IN  IF new = 0
                        THEN \A n \in MembersAfter(t) : n.id # m.id
                        ELSE [m EXCEPT !.rights = new] \in MembersAfter(t)

\* C12 (amended): ... every non-special member not in U has rights old & ~R
\* and is gone if and only if that is 0 and old was not 0 (a member that had
\* no rights stays, as a member whose rights do not change) ...
C12_RemovedIffEmptied ==
    \A t \in Callers :
        MembersSet(t) =>
            /\ GrantedToAll(t)
            /\ UnchangedUntouched(t)
            /\ \A m \in MembersBefore(t) :
                 (~special(m) /\ m.mail \notin Requested(call[t].args.usernames)) =>
                    LET new == AndNot(m.rights, call[t].args.rights)
                    IN  IF new = 0 /\ m.rights # 0
                        THEN \A n \in MembersAfter(t) : n.id # m.id
                        ELSE [m EXCEPT !.rights = new] \in MembersAfter(t)

\* A call has returned that took the last rights of a member not named and
\* entered a username that was no member.
C12_Witness ==
    \E t \in Callers :
        /\ MembersSet(t)
        /\ \E k \in DOMAIN SentRows(t) : SentRows(t)[k].flags = REMOVE_ROW
        /\ \E k \in DOMAIN SentRows(t) : SentRows(t)[k].flags = ADD_ROW
        /\ call[t].args.rights # 0

\* C13: setFolderMembers reads the member list once (LoadPermissionTable,
\* QueryTable, UnloadTable, in this order, before anything else) and then
\* sends at most one UpdateFolderPermission, which carries all the row
\* operations of the call; it sends none when there is no row operation, and
\* it returns the number of row operations sent.
C13_OneUpdate ==
    \A t \in Callers :
        call[t].fn = "setFolderMembers" =>
            LET updates == SelectSeq(trace[t], IsUpdate)
                reads == SelectSeq(trace[t], LAMBDA r : ~IsUpdate(r))
            IN  /\ Len(updates) <= 1
                /\ Len(reads) <= 3
                /\ \A i \in DOMAIN reads :
                      reads[i].call = <<"LoadPermissionTableRequest", "QueryTableRequest",
                                        "UnloadTableRequest">>[i]
                /\ \A i \in DOMAIN trace[t] :
                      IsUpdate(trace[t][i]) =>
                          /\ i = 4
                          /\ trace[t][i].rows # <<>>
                          /\ trace[t][i].rows = call[t].loc.permissions
                /\ MembersSet(t) =>
                      /\ Len(reads) = 3
                      /\ call[t].out.value = Len(SentRows(t))
                      /\ SentRows(t) = call[t].loc.permissions

\* A call has returned 2 after one UpdateFolderPermission with two rows.
C13_Witness ==
    \E t \in Callers :
        /\ MembersSet(t)
        /\ Len(SelectSeq(trace[t], IsUpdate)) = 1
        /\ Len(SentRows(t)) = 2
        /\ call[t].out.value = 2

\* An operation of t has returned a value.
Returned(t, fn) ==
    /\ call[t].fn = fn
    /\ Ended(t)
    /\ call[t].out.kind = "ok"

\* The requests a deleteFolder of t is to send.
DeleteFolderPlan(t) ==
    IF call[t].args.clear
    THEN <<EmptyFolderRequest(call[t].args.folderId, TRUE, TRUE, TRUE, TRUE),
           DeleteFolderRequest(call[t].args.folderId, TRUE)>>
    ELSE <<DeleteFolderRequest(call[t].args.folderId, TRUE)>>

\* What has been sent is the beginning of what is to be sent.
Follows(t, plan) ==
    /\ Len(trace[t]) <= Len(plan)
    /\ \A i \in DOMAIN trace[t] : trace[t][i] = plan[i]

\* The request staged by this step comes after a send that was answered in
\* full with SUCCESS.
AfterSuccess(t, first, second) ==
    (snd[t].req.call = first /\ snd'[t].req.call = second) =>
        /\ snd[t].pc = "ok"
        /\ snd[t].status = SUCCESS
        /\ snd[t].bytes = HeaderSize

\* C14: deleteFolder with clear sends EmptyFolder with hard, normal,
\* associated and subfolders all true for the folder, and DeleteFolder with
\* hard = true only once EmptyFolder was answered with SUCCESS; without clear
\* it sends DeleteFolder with hard = true only; it returns the success flag of
\* the DeleteFolder response.
C14_DeleteFolder ==
    /\ [](\A t \in Callers :
            call[t].fn = "deleteFolder" =>
                /\ Follows(t, DeleteFolderPlan(t))
                /\ Returned(t, "deleteFolder") =>
                      /\ trace[t] = DeleteFolderPlan(t)
                      /\ call[t].out.value = call[t].loc.reported)
    /\ [][\A t \in Callers :
            call[t].fn = "deleteFolder" =>
                AfterSuccess(t, "EmptyFolderRequest", "DeleteFolderRequest")]_vars

\* A deleteFolder with clear has returned the flag 1 after both requests.
C14_Witness ==
    \E t \in Callers :
        /\ Returned(t, "deleteFolder")
        /\ call[t].args.clear
        /\ Len(trace[t]) = 2
        /\ call[t].out.value = 1

\* The requests a removeDevice of t is to send if it empties the device folder
\* of everything.
RemoveDevicePlan(t) ==
    <<GetFolderByNameRequest(PublicRoot, SyncFolderName),
      GetFolderByNameRequest(call[t].loc.parent, call[t].args.username),
      EmptyFolderRequest(call[t].loc.folderId, TRUE, TRUE, TRUE, TRUE),
      DeleteFolderRequest(call[t].loc.folderId, TRUE)>>

\* C17: removeDevice resolves the sync folder and then the device folder in
\* it by name, sends EmptyFolder for the device folder with hard, normal,
\* associated and subfolders all true, and only then DeleteFolder (hard) for
\* the same folder id.
C17_RemoveDevice ==
    \A t \in Callers :
        call[t].fn = "removeDevice" =>
            /\ Follows(t, RemoveDevicePlan(t))
            /\ Returned(t, "removeDevice") => trace[t] = RemoveDevicePlan(t)

\* The requests a resyncDevice of t is to send, given the filter of the
\* content table.
ResyncDevicePlan(t, filter) ==
    <<GetFolderByNameRequest(PublicRoot, SyncFolderName),
      GetFolderByNameRequest(call[t].loc.parent, call[t].args.username),
      LoadContentTableRequest(call[t].loc.folderId, "2", filter),
      QueryTableRequestFor(<<"MID">>, call[t].loc.issued, 0, call[t].loc.rowCount),
      UnloadTableRequest(call[t].loc.issued),
      DeleteMessagesRequest(call[t].args.id, call[t].loc.folderId,
                            Mids(call[t].loc.entries), TRUE)>>

\* The requests sent so far are those of the plan; a call that returned sent
\* them all and returned 1 (true) exactly if the partial flag answered is 0.
Resynced(t, filter) ==
    /\ Len(trace[t]) <= 6
    /\ \A i \in DOMAIN trace[t] : trace[t][i] = ResyncDevicePlan(t, filter)[i]
    /\ Returned(t, "resyncDevice") =>
          /\ Len(trace[t]) = 6
          /\ call[t].out.value = 1 <=> call[t].loc.reported = 0

\* C18: resyncDevice loads the content table of the device folder
\* filtered with NOT(PROPERTY(EQ, DISPLAYNAME, "devicedata")), queries MID for
\* all rows, unloads, then sends one DeleteMessages (hard) listing exactly the
\* MIDs of the rows returned; it returns true iff partial is false.
C18_FilterNotEqual ==
    \A t \in Callers :
        call[t].fn = "resyncDevice" =>
            Resynced(t, Restriction_NOT(Restriction_PROPERTY(Op("EQ"), 0,
                            TaggedPropval("DISPLAYNAME", "devicedata"))))

\* The positions of the trace of t that hold a request of the kind.
Sent(t, kind) == {i \in DOMAIN trace[t] : trace[t][i].call = kind}

\* C16: getSyncData resolves the sync folder and lists its subfolders
\* (LoadHierarchyTable, QueryTable for FOLDERID and DISPLAYNAME, UnloadTable);
\* for each subfolder it loads the content table with flags 2 and the filter
\* AND(DISPLAYNAME = "devicedata", MESSAGECLASS = "IPM.Note.GrommunioState"),
\* queries MID and unloads; for each message id returned it sends
\* GetMessageProperties for BODY; a subfolder without a message adds no entry.
C16_EveryMessage ==
    \A t \in Callers :
        Returned(t, "getSyncData") =>
            /\ trace[t][1] = GetFolderByNameRequest(PublicRoot, SyncFolderName)
            /\ trace[t][2] = LoadHierarchyTableRequest(call[t].loc.parent, "0", Restriction_XNULL)
            /\ trace[t][3].call = "QueryTableRequest"
            /\ trace[t][3].options = <<"FOLDERID", "DISPLAYNAME">>
            /\ trace[t][4].call = "UnloadTableRequest"
            /\ \A i \in Sent(t, "LoadContentTableRequest") :
                  /\ trace[t][i].tableFlags = "2"
                  /\ trace[t][i].restriction = ddFilter
                  /\ trace[t][i + 1].call = "QueryTableRequest"
                  /\ trace[t][i + 1].options = <<"MID">>
                  /\ trace[t][i + 2].call = "UnloadTableRequest"
            /\ \A k \in DOMAIN call[t].loc.mids :
                  \E i \in Sent(t, "GetMessagePropertiesRequest") :
                      trace[t][i] = GetMessagePropertiesRequest(call[t].loc.mids[k],
                                                                <<"BODY">>)
            /\ call[t].loc.mids = <<>> => call[t].loc.data = {}

\* The value of the property of the request that carries the tag.
PropertyOf(request, tag) ==
    LET k == CHOOSE k \in DOMAIN request.rows : request.rows[k].tag = tag
    IN  request.rows[k].value

\* The 16 bytes of the GUID of a domain: the domain id as a little-endian
\* u32, then fb 0a, f6 7d, 91 92, 49 88 6a a7 38 ce.
DomainGuidBytes(domainId) ==
    <<domainId % 256, (domainId \div 256) % 256, (domainId \div 65536) % 256,
      domainId \div 16777216, 251, 10, 246, 125, 145, 146, 73, 136, 106, 167, 56, 206>>

\* The 6 gc bytes of byteSwap(changeNum): its low 48 bits, most significant
\* byte first; they are the last 6 of the 8 bytes of changeNum.
GcBytes(changeNum) == [i \in 1..6 |-> changeNum[i + 2]]

RoundTrip(t) ==
    /\ call[t].out.kind = "ok"
    /\ call[t].loc.popped.tag = call[t].loc.pv.tag
    /\ call[t].loc.popped.type = call[t].loc.pv.type
    /\ call[t].loc.popped.value = call[t].loc.pv.value
    /\ call[t].loc.buff = call[t].loc.trailing
C19_RoundTrip ==
    \A t \in Callers :
        (/\ call[t].fn = "TaggedPropval"
         /\ call[t].pc = "done"
         /\ Member(call[t].loc.pv.type) # "none")
        => RoundTrip(t)

\* C20: a typed constructor throws std::invalid_argument exactly when the
\* type code of its tag (tag & 0xFFFF) is not a type of the constructor's data
\* category, i.e. not a type whose value lives in the member the constructor
\* writes (32 bit: LONG or ERROR; 64 bit: LONGLONG, CURRENCY or FILETIME;
\* string: STRING or WSTRING; binary: BINARY); a constructed value keeps the
\* tag, has type = tag & 0xFFFF and holds the member that belongs to the type.
Category(ctor) ==
    CASE ctor = "uint32_t" -> {"LONG", "ERROR"}
      [] ctor = "uint64_t" -> {"CURRENCY", "LONGLONG", "FILETIME"}
      [] ctor \in {"char*", "string"} -> {"STRING", "WSTRING"}
      [] ctor = "void*" -> {"BINARY"}
      [] OTHER -> {name \in TypeNames : Member(PropvalType(name)) = Written(ctor)}
ConstructedBy(t) ==
    /\ call[t].fn = "TaggedPropval"
    /\ call[t].args.container \in Constructors
C20_TypedConstructors ==
    \A t \in Callers :
        ConstructedBy(t) =>
            LET tag == call[t].args.id
                pv == call[t].loc.pv
            IN  IF ~IsType(tagType(tag), Category(call[t].args.container))
                THEN /\ call[t].pc = "done"
                     /\ call[t].out.kind = "invalid_argument"
                ELSE /\ call[t].out.kind # "invalid_argument"
                     /\ pv.tag = tag
                     /\ pv.type = tagType(tag)
                     /\ pv.member = Member(pv.type)
C20_Witness ==
    \E t \in Callers :
        /\ ConstructedBy(t)
        /\ call[t].args.container = "uint32_t"
        /\ tagType(call[t].args.id) = PropvalType("LONGLONG")
        /\ call[t].out.kind = "invalid_argument"

\* C23: the 16 bit type follows the tag on the wire exactly when the type
\* code of the tag is UNSPECIFIED, and the deserializing constructor reads it
\* in exactly that case: reading a serialized value never fails, and yields the
\* tag and the type that were written, whatever the property id of the tag.
TypeOnWire(pv) == tagType(pv.tag) = PropvalType("UNSPECIFIED")
WrittenHead(pv) ==
    PushInt(pv.tag, 4) \o (IF TypeOnWire(pv) THEN PushInt(pv.type, 2) ELSE <<>>)
C23_TypeFieldAgrees ==
    /\ [](\A t \in Callers :
            (call[t].fn = "TaggedPropval" /\ call[t].pc = "serialized") =>
                /\ Take(call[t].loc.buff, Len(WrittenHead(call[t].loc.pv)))
                      = WrittenHead(call[t].loc.pv)
                /\ Len(call[t].loc.buff)
                      = Len(WrittenHead(call[t].loc.pv))
                        + Len(PushValue(Member(call[t].loc.pv.type), call[t].loc.pv.value))
                        + Len(call[t].loc.trailing))
    /\ [][\A t \in Callers :
            (call[t].fn = "TaggedPropval" /\ call[t].pc = "serialized"
             /\ call'[t].pc = "done") =>
                /\ call'[t].out.kind = "ok"
                /\ call'[t].loc.popped.tag = call[t].loc.pv.tag
                /\ call'[t].loc.popped.type =
                      (IF TypeOnWire(call[t].loc.pv) THEN call[t].loc.pv.type
                       ELSE tagType(call[t].loc.pv.tag))]_vars

\* C22: converting a value below 2^48 to a GC buffer with valueToGc and back
\* with gcToValue gives the value again.
C22_GcRoundTrip ==
    \A t \in Callers :
        (call[t].fn = "gcToValue" /\ call[t].pc = "done")
        => call[t].out.value = call[t].loc.x

\* C27: pushing a SizedXID whose size is in 17..24 appends size + 1 bytes: the
\* size byte, the 16 bytes of the GUID and the first size - 16 bytes of the
\* localId; writeXID appends the same without the size byte, size bytes in
\* all. With a size outside 17..24 both throw SerializationError and the buffer
\* is as it was.
XIDWritten(t) == Drop(call[t].loc.buff, Len(call[t].loc.before))
C27_SizedXID ==
    \A t \in Callers :
        (call[t].fn \in {"Serialize<SizedXID>::push", "SizedXID::writeXID"}
         /\ call[t].pc = "done") =>
            LET xid == call[t].loc.xid
                sized == IF call[t].fn = "Serialize<SizedXID>::push"
                         THEN <<xid.size>> ELSE <<>>
            IN  /\ Take(call[t].loc.buff, Len(call[t].loc.before)) = call[t].loc.before
                /\ IF xid.size \in 17..24
                   THEN /\ call[t].out.kind = "ok"
                        /\ Len(XIDWritten(t)) = Len(sized) + xid.size
                        /\ Take(XIDWritten(t), Len(sized)) = sized
                        /\ SubSeq(XIDWritten(t), Len(sized) + 1, Len(sized) + 16)
                              = PushGUID(xid.guid)
                        /\ Drop(XIDWritten(t), Len(sized) + 16)
                              = Take(xid.localId, xid.size - 16)
                   ELSE /\ call[t].out.kind = "SerializationError"
                        /\ XIDWritten(t) = <<>>
C27_Witness ==
    \E t \in Callers :
        /\ call[t].fn = "Serialize<SizedXID>::push"
        /\ call[t].pc = "done"
        /\ call[t].loc.xid.size = 25
        /\ call[t].loc.before # <<>>
        /\ call[t].out.kind = "SerializationError"

\* The table handles the operation of t has loaded and not yet unloaded after
\* the first n requests of its trace: a Load...Table counts once a later
\* request follows it or its send returned; an UnloadTable counts when it is
\* transmitted.
IsLoadTable(req) ==
    req.call \in {"LoadHierarchyTableRequest", "LoadPermissionTableRequest",
                  "LoadContentTableRequest"}
LoadedTables(t, n) ==
    Cardinality({i \in 1..n : /\ IsLoadTable(trace[t][i])
                              /\ (i < Len(trace[t]) \/ snd[t].pc = "ok")})
    - Cardinality({i \in 1..n : trace[t][i].call = "UnloadTableRequest"})

ConnectThrew(t) ==
    /\ call[t].fn = "connect"
    /\ Ended(t)
    /\ call[t].out.kind = "ConnectionError"
    /\ snd[t].req = NoRequest
OpenFds == {fd \in 1..MaxFds : fds[fd].state = "open"}
HeldFds == {sock} \cup {newconn[t] : t \in Callers}

\* C29: whatever connects, reconnects, sends and destructions have happened,
\* and however they ended, every socket that was created and is still open is
\* the one the client's connection holds (or the one the local connection of
\* a running reconnect holds), so that the client holds at most one; no
\* socket is closed twice; and after a Connection::connect that threw, the
\* connection holds no socket.
C29_SocketDiscipline ==
    /\ OpenFds \subseteq HeldFds
    /\ Cardinality(OpenFds \ {newconn[t] : t \in Callers}) <= 1
    /\ \A fd \in 1..MaxFds : ~fds[fd].badclose
    /\ \A t \in Callers : ConnectThrew(t) => sock = NoSock

\* C28: a response is accepted only when complete. A header read of fewer
\* than 5 bytes whose status byte is SUCCESS ends the send with a connection
\* error and no body byte read. A send that returns has read a full header and
\* exactly `length` body bytes. Every pass of the body loop either receives at
\* least one byte, never more than are missing, and goes on while bytes are
\* missing, or fails the send with a connection error (peer close or read
\* error); so the loop ends.
ShortHeader(t) ==
    snd[t].bytes \in 1..(HeaderSize - 1) /\ snd[t].status = SUCCESS
Accepted_response(t) == snd[t].pc \in {"ok", "rc_ok"} /\ snd[t].fd # NoSock
C28_CompleteResponse ==
    /\ [](\A t \in Callers :
            /\ ShortHeader(t) =>
                  /\ snd[t].offset = 0
                  /\ snd[t].response = "none"
                  /\ ~Accepted_response(t) /\ snd[t].pc # "body"
                  /\ snd[t].rcret # "true"
                  /\ snd[t].on = "connection" =>
                        /\ snd[t].pc = "throw" /\ snd[t].exc = ConnectionError
                        /\ Ended(t) /\ call[t].out.kind = "ConnectionError"
            /\ Accepted_response(t) =>
                  /\ snd[t].bytes = HeaderSize /\ snd[t].status = SUCCESS
                  /\ snd[t].offset = snd[t].length
            /\ snd[t].pc = "body" =>
                  /\ snd[t].bytes = HeaderSize /\ snd[t].status = SUCCESS
                  /\ snd[t].offset < snd[t].length)
    /\ [][\A t \in Callers :
            (snd[t].pc = "body" /\ snd'[t] # snd[t]) =>
                \/ /\ snd'[t].offset > snd[t].offset
                   /\ snd'[t].offset <= snd[t].length
                   /\ snd'[t].length = snd[t].length
                   /\ IF snd'[t].offset < snd[t].length
                      THEN snd'[t].pc = "body"
                      ELSE snd'[t].pc \in {"ok", "rc_ok"}
                \/ /\ snd'[t].offset = snd[t].offset
                   /\ snd'[t].pc \in {"rc_failed", "throw"}
                   /\ snd[t].on = "connection" =>
                         /\ snd'[t].exc = ConnectionError
                         /\ call'[t].pc = "done"
                         /\ call'[t].out.kind = "ConnectionError"]_vars
    /\ \A t \in {MainCaller} : (snd[t].pc = "body") ~> (snd[t].pc # "body")

\* The body loop after a partial read: one byte received, one missing.
C28_Witness ==
    \E t \in Callers :
        /\ snd[t].pc = "body"
        /\ snd[t].offset = 1
        /\ snd[t].length = 2

\* The buffers a TaggedPropval points to, and its payload.
HasStorage(pv) == Member(pv.type) \in {"data", "str", "astr", "adata"} /\ pv.value # 0
BuffersOf(h, pv) ==
    IF ~HasStorage(pv) THEN {}
    ELSE IF Member(pv.type) \in {"astr", "adata"}
    THEN {pv.value} \cup {h[pv.value].content[i] : i \in DOMAIN h[pv.value].content}
    ELSE {pv.value}
PayloadOf(h, pv) ==
    IF ~HasStorage(pv) THEN <<pv.value>>
    ELSE IF Member(pv.type) \in {"astr", "adata"}
    THEN [i \in DOMAIN h[pv.value].content |-> h[h[pv.value].content[i]].content]
    ELSE h[pv.value].content
Copied(t) ==
    /\ call[t].fn = "TaggedPropval storage"
    /\ call[t].loc.op[1] = "copy"
DeepCopy(t) ==
    LET h == call[t].loc.heap
        dst == call[t].loc.objs[call[t].loc.op[2]]
        src == call[t].loc.objs[call[t].loc.op[3]]
    IN  /\ dst.tag = src.tag /\ dst.type = src.type
        /\ PayloadOf(h, dst) = PayloadOf(h, src)
        /\ BuffersOf(h, dst) \cap BuffersOf(h, src) = {}
ReleasedOnce(t) ==
    LET h == call[t].loc.heap
        objs == call[t].loc.objs
    IN  /\ \A b \in 1..MaxBuffers : h[b].state \in {"unused", "live", "freed"}
        /\ \A o \in Objects : objs[o].alive =>
              \A b \in BuffersOf(h, objs[o]) : h[b].state = "live"
        /\ (\A o \in Objects : ~objs[o].alive) =>
              \A b \in 1..MaxBuffers : h[b].state = "live" => h[b].borrowed

\* C21: a copy (constructed or assigned) equals its source in tag, type and
\* payload and shares no buffer with it, whether the source owns its storage
\* or not; a moved-from object holds no storage; whatever was constructed,
\* copied, moved, assigned and destroyed, no buffer is released twice, no
\* borrowed buffer is released, no live object points to a released buffer,
\* and once every object is destroyed every owned buffer has been released.
C21_DeepCopy ==
    \A t \in Callers :
        call[t].fn = "TaggedPropval storage" =>
            /\ Copied(t) => DeepCopy(t)
            /\ call[t].loc.op[1] = "move" =>
                  BuffersOf(call[t].loc.heap, call[t].loc.objs[call[t].loc.op[3]]) = {}
            /\ ReleasedOnce(t)

\* Serialize<Restriction>::push of caller t has ended / has returned; the
\* factory call that built the restriction, and what is in the buffer.
SerializeEnded(t) ==
    call[t].fn = "Restriction::serialize" /\ call[t].pc = "done"
Serialized(t) == SerializeEnded(t) /\ call[t].out.kind = "ok"
GivenCall(t) == call[t].loc.before[1]

\* The wire codes of the variants, by factory function.
WireCode(factory) ==
    CASE factory = "AND" -> 0
      [] factory = "OR" -> 1
      [] factory = "NOT" -> 2
      [] factory = "CONTENT" -> 3
      [] factory = "PROPERTY" -> 4
      [] factory = "PROPCOMP" -> 5
      [] factory = "BITMASK" -> 6
      [] factory = "SIZE" -> 7
      [] factory = "EXIST" -> 8
      [] factory = "SUBOBJECT" -> 9
      [] factory = "COMMENT" -> 10
      [] factory = "COUNT" -> 11

\* The serializations of the restrictions, each in full, one after the other.
RECURSIVE InOrder(_)
InOrder(ress) ==
    IF ress = <<>> THEN <<>>
    ELSE Restriction_serialize(Head(ress)).bytes \o InOrder(Tail(ress))

\* C24: Restriction::serialize writes no bytes for a NULL restriction; for
\* every other variant the first byte written is the variant's wire code; for
\* AND/OR the u32 that follows is the number of children, and after it come the
\* children's serializations, each in full and in the order of the list.
C24_WireCodes ==
    \A t \in Callers :
        SerializeEnded(t) =>
            LET c == GivenCall(t)
                bytes == call[t].loc.buff
            IN  /\ c.factory = "XNULL" => bytes = <<>> /\ Serialized(t)
                /\ c.factory # "XNULL" => bytes # <<>> /\ bytes[1] = WireCode(c.factory)
                /\ c.factory \in {"AND", "OR"} =>
                      /\ Serialized(t)
                      /\ PopInt(Drop(bytes, 1), 4) = Len(c.elements)
                      /\ Drop(bytes, 5) = InOrder(c.elements)

\* An AND of two different restrictions, neither NULL, has been serialized.
C24_Witness ==
    \E t \in Callers :
        /\ Serialized(t)
        /\ GivenCall(t).factory = "AND"
        /\ Len(GivenCall(t).elements) = 2
        /\ GivenCall(t).elements[1] # GivenCall(t).elements[2]
        /\ \A i \in 1 .. 2 : GivenCall(t).elements[i] # Restriction_XNULL

\* C25: a CONTENT or PROPERTY restriction constructed with proptag 0 is
\* serialized with the tag of its propval in the proptag field, one
\* constructed with another proptag with that proptag; the hierarchy table
\* findFolder loads is filtered by a CONTENT restriction whose proptag is
\* DISPLAYNAME, and is that of the private root folder when parent is 0.
C25_ProptagSubstituted ==
    \A t \in Callers :
        /\ Serialized(t) /\ GivenCall(t).factory \in {"CONTENT", "PROPERTY"} =>
              LET c == GivenCall(t)
                  field == PopInt(Drop(call[t].loc.buff,
                                       IF c.factory = "CONTENT" THEN 5 ELSE 2), 4)
              IN  field = IF c.proptag = 0 THEN c.propvals[1].tag ELSE c.proptag
        /\ call[t].fn = "findFolder" /\ trace[t] # <<>> =>
              /\ trace[t][1].call = "LoadHierarchyTableRequest"
              /\ trace[t][1].restriction.variant = WireCode("CONTENT")
              /\ trace[t][1].restriction.proptag = "DISPLAYNAME"
              /\ trace[t][1].restriction.propval.tag = "DISPLAYNAME"
              /\ call[t].args.parent = "0" => trace[t][1].folderId = PrivateRoot

\* A PROPERTY restriction constructed with proptag 0 has been serialized.
C25_Witness ==
    \E t \in Callers :
        /\ Serialized(t)
        /\ GivenCall(t).factory = "PROPERTY"
        /\ GivenCall(t).proptag = 0
        /\ GivenCall(t).propvals[1].tag # 0

\* The serializations of the propvals, one after the other.
RECURSIVE PropvalsInOrder(_)
PropvalsInOrder(propvals) ==
    IF propvals = <<>> THEN <<>>
    ELSE Serialize_push(Head(propvals)) \o PropvalsInOrder(Tail(propvals))

\* C26: a COMMENT restriction serializes as its type code, u8 n, the n
\* propvals, then a present flag: 1 followed by the child's serialization when
\* a non-NULL child was given, 0 and nothing more when none was given; with 0
\* or more than 255 propvals the serialization fails with SerializationError.
C26_CommentChild ==
    \A t \in Callers :
        SerializeEnded(t) /\ GivenCall(t).factory = "COMMENT" =>
            LET c == GivenCall(t)
                n == Len(c.propvals)
                child == c.elements[1]
            IN  IF n = 0 \/ n > 255
                THEN call[t].out.kind = "SerializationError"
                ELSE /\ Serialized(t)
                     /\ call[t].loc.buff =
                           <<WireCode("COMMENT"), n>> \o PropvalsInOrder(c.propvals)
                           \o (IF child # Restriction_XNULL
                               THEN <<1>> \o Restriction_serialize(child).bytes
                               ELSE <<0>>)

=============================================================================
